---- MODULE Spec2Model ----
(***************************************************************************)
(* VIPrestore: the remote service synchronisation of ServiceManager        *)
(* (service_manager.py), the transport's fetch primitives (vipclient.py)   *)
(* and the refresh / login / logout wiring of MainWindow (main.py).        *)
(*                                                                         *)
(* Spec      one ServiceManager on one asyncio event loop: sync()          *)
(*           (fetch_services_data) with its four retried fetches, the      *)
(*           merge and the four assignments, interleaved with resolveGroup *)
(*           (fetch_group_connection) and set_client.  The caller awaits a *)
(*           sync() before it issues the next one.                         *)
(* SpecMain  MainWindow: refreshes that overlap, login, logout and the     *)
(*           session timer, at the granularity of the awaits of            *)
(*           refreshServicesAsync.                                         *)
(* SpecCall  one _run_api_call: its attempts, each a worker thread raced   *)
(*           against wait_for's timeout.                                   *)
(* SpecTransport  one VideoIPathClient: get, login and logout through      *)
(*           _request, with the certificate exception callback.            *)
(* SpecMutate  ServiceManager.create_services and cancel_services: the     *)
(*           validation, the single POST and the per-entry accounting.     *)
(* SpecMutateMain  MainWindow: cancelSelectedServices and                  *)
(*           create_services_from_file against the displayed map.          *)
(* SpecEvaluate  one evaluate_filter of the ServicesFilterProxy             *)
(*           (services_filter.py) for every filter string and cell text.   *)
(* SpecFilter  the proxy's four setters over the table of one sync result. *)
(* SpecSort  onServicesRetrieved building the table, and lessThan on the   *)
(*           Start column.                                                 *)
(***************************************************************************)
EXTENDS Integers, FiniteSets, Sequences, TLC

\* ------------------------------------------------------------------ bounds
\* sync() calls issued on the ServiceManager over a run
MaxSyncs == 2
\* resolveGroup() calls issued on the ServiceManager over a run
MaxResolves == 1
\* refreshes issued on the MainWindow over a run
MaxRefreshes == 2
\* logins attempted on the MainWindow over a run
MaxLogins == 2
\* the largest attempt budget (retries) a _run_api_call is given
MaxAttempts == 3
\* calls made on one VideoIPathClient over a run
MaxCalls == 3
\* per-entry results in one response of a mutation endpoint
MaxLinks == 2
\* create and cancel operations run from the MainWindow over a run
MaxOps == 3
\* pieces a filter string is typed from
MaxPieces == 3
\* the seconds of the model's calendar run from 0 to MaxSec
MaxSec == 5

\* --------------------------------------------------------- program constants
\* _run_api_call(..., retries: int = 2): attempts per fetch
Retries == 2
\* int(start_ts) / 1000: milliseconds per second, on the model's scale
MsPerSec == 2
\* seconds per day and days per month of the model's calendar
SecPerDay == 2
DaysPerMonth == 2

\* ------------------------------------------------------------------- dicts
\* A Python dict is a function on its key set; {} is the empty function.
EmptyMap == << >>

\* dict.update: keys of g are inserted or replaced, the others kept
Update(f, g) ==
    [k \in (DOMAIN f) \cup (DOMAIN g) |-> IF k \in DOMAIN g THEN g[k] ELSE f[k]]

\* d[k] = v
Put(f, k, v) == Update(f, k :> v)

\* ------------------------------------------------------- the remote system
\* What the remote system may answer.  A normal service as the status query
\* returns it carries a booking with a profile id ("" when it has none); the
\* client-side field groupParent is absent ("") in every server record.
NormalSvc(pid) ==
    [type |-> "connection", profile |-> pid, groupParent |-> "", children |-> {}]

\* currentModernServices as answered at two moments: "g1" is an id that a
\* group service also uses (the two sources share one namespace).
NormalResponses ==
    { ("s1" :> NormalSvc("p1")) @@ ("s2" :> NormalSvc("")),
      ("s2" :> NormalSvc("p2")) @@ ("g1" :> NormalSvc("p1")) }

\* conman services of type group as answered: group id -> its children ids;
\* the child "s3" is no service of any answer, the group "g1" is itself a
\* child of the group "g2"
RawGroupResponses ==
    { ("g1" :> {"s2", "s3"}) @@ ("g2" :> {"g1"}) }

\* profile catalog as answered: profile id -> name, "" when the name is absent;
\* "p3" is listed and used by no service, "p2" is used and not listed
ProfileResponses ==
    { ("p1" :> "HD") @@ ("p3" :> "") }

\* nGraphElements and externalEndpoints: endpoint id -> descriptor label
LocalEndpoints == ("e1" :> "Cam 1") @@ ("e2" :> "")
ExternalEndpoints == "x1" :> "Uplink"

\* ids resolveGroup is asked for
ResolveIds == {"g1"}

\* conman services of type group as answered to the single-group request: as
\* above, or without any group (the group asked for is gone)
SingleGroupResponses == RawGroupResponses \cup {EmptyMap}

\* ------------------------------------------------ vipclient fetch primitives
\* One entry of group_services built by retrieve_group_connections and by
\* fetch_single_group_connection: type "group", an empty profile.
GroupSvc(children) ==
    [type |-> "group", profile |-> "", groupParent |-> "", children |-> children]

\* retrieve_group_connections on a raw answer: (group_services, child_to_group)
GroupServicesOf(raw) == [g \in DOMAIN raw |-> GroupSvc(raw[g])]

ChildToGroupOf(raw) ==
    [c \in UNION {raw[g] : g \in DOMAIN raw} |->
        CHOOSE g \in DOMAIN raw : c \in raw[g]]

\* retrieve_group_connections: a VideoIPathClientError of the request is
\* caught and ({}, {}) is returned
retrieve_group_connections(outcome, raw) ==
    IF outcome = "transport"
    THEN [group_services |-> EmptyMap, child_to_group |-> EmptyMap]
    ELSE [group_services |-> GroupServicesOf(raw), child_to_group |-> ChildToGroupOf(raw)]

\* label if label else id
LabelOrId(m) == [e \in DOMAIN m |-> IF m[e] # "" THEN m[e] ELSE e]

\* get_endpoint_map: two requests, each in its own try/except that swallows
\* every exception; the map holds what the successful ones gave
get_endpoint_map(localOutcome, externalOutcome) ==
    Update(IF localOutcome = "ok" THEN LabelOrId(LocalEndpoints) ELSE EmptyMap,
           IF externalOutcome = "ok" THEN LabelOrId(ExternalEndpoints) ELSE EmptyMap)

\* fetch_single_group_connection: the group when the answer lists it, None
\* when it does not or when the request raised VideoIPathClientError
None == [type |-> "None", profile |-> "", groupParent |-> "", children |-> {}]

fetch_single_group_connection(outcome, raw, group_id) ==
    IF outcome = "ok" /\ group_id \in DOMAIN raw THEN GroupSvc(raw[group_id]) ELSE None

\* ------------------------------------------- ServiceManager: the merge steps
\* as MergeServices, the overlay in the wrong order: a normal service replaces
\* the group service of the same id
MergeServicesNormalLast(normal_services, group_services) ==
    Update(Update(EmptyMap, group_services), normal_services)

\* merged = {}; merged.update(normal_services); merged.update(group_services)
MergeServices(normal_services, group_services) ==
    Update(Update(EmptyMap, normal_services), group_services)

\* as StampGroupParent, writing into copies: merged never shows a groupParent
StampGroupParentCopies(merged, normal_services, group_services, c2g) == merged

\* for svc_id, svc_obj in normal_services.items(): if svc_id in child_to_group:
\* svc_obj["groupParent"] = child_to_group[svc_id].  The loop writes into
\* the objects of normal_services after the overlay: merged shows the write
\* where its entry still is that object, i.e. where no group entry replaced it.
StampGroupParent(merged, normal_services, group_services, c2g) ==
    [id \in DOMAIN merged |->
        IF id \in DOMAIN normal_services /\ id \notin DOMAIN group_services
           /\ id \in DOMAIN c2g
        THEN [merged[id] EXCEPT !.groupParent = c2g[id]]
        ELSE merged[id]]

\* as UsedProfileIds, without the test "if pid"
UsedProfileIdsUnfiltered(merged) == {merged[id].profile : id \in DOMAIN merged}

\* used_profile_ids: the non-empty booking.profile values of merged
UsedProfileIds(merged) ==
    {merged[id].profile : id \in {i \in DOMAIN merged : merged[i].profile # ""}}

\* profile_mapping = {pid: info.get("name", pid)}
ProfileMapping(prof_data) ==
    [pid \in DOMAIN prof_data |-> IF prof_data[pid] # "" THEN prof_data[pid] ELSE pid]

\* lines 101-137: the dict fetch_services_data builds and returns
ProcessResults(normal_services, profiles_resp, endpoints, group_res) ==
    LET merged == StampGroupParent(
                      MergeServices(normal_services, group_res.group_services),
                      normal_services, group_res.group_services,
                      group_res.child_to_group)
    IN  [merged |-> merged,
         used_profile_ids |-> UsedProfileIds(merged),
         profile_mapping |-> ProfileMapping(profiles_resp),
         endpoint_map |-> endpoints,
         child_to_group |-> group_res.child_to_group]

\* ------------------------------------------------------------------- state
VARIABLES
    \* ServiceManager
    client,            \* self.client is set (TRUE) or None (FALSE)
    current_services,  \* self.current_services
    profile_mapping,   \* self.profile_mapping
    endpoint_map,      \* self.endpoint_map
    child_to_group,    \* self.child_to_group
    origin,            \* per map, the number of the sync() that assigned it (0: none)
    syncCalls,         \* sync() calls issued so far; the number of the latest one
    syncPc,            \* where the latest fetch_services_data coroutine stands
    fetch,             \* its four _run_api_call coroutines
    syncRet,           \* the dict it builds and returns
    resolves,          \* resolveGroup() calls issued so far
    rg,                \* the latest fetch_group_connection coroutine
    \* MainWindow
    mw_client,         \* self.client: 0 is None, n the client the n-th login made
    connected,         \* updateConnectionStatus: the Logout action is enabled
    liveSessions,      \* clients whose session the remote system holds
    currentServices,   \* self.currentServices
    mw_profile_mapping,\* self._profile_mapping
    logins,            \* doLogin attempts so far
    loginPc,           \* where the doLogin coroutine stands
    refreshes,         \* refreshServicesAsync calls that passed the client test
    refPc,             \* per refresh, where its coroutine stands
    refClient,         \* per refresh, the client its four fetches were bound to
    refResp,           \* per refresh, what its four fetches returned
    applied,           \* the refresh whose result was assigned last (0: none)
    ended,             \* a logout or disconnect happened, no later sync applied
    endedClient,       \* the latest client a logout or disconnect ended
    \* one _run_api_call, its attempts on the worker pool and its owner
    retries,           \* the parameter retries of the call
    attempt,           \* the loop variable: index of the attempt awaited
    callPc,            \* "idle", "await", "returned", "raised", "applied"
    waitFor,           \* per attempt, how asyncio.wait_for ended
    worker,            \* per attempt, the thread of the pool that runs func
    callResult,        \* what the call returned or raised, and of which attempt
    mapValue,          \* the attempt whose value the owner stored (-1: none)
    \* one VideoIPathClient
    verify_ssl,        \* the constructor argument verify_ssl
    ssl_exception_callback, \* a callback was given (TRUE) or is None (FALSE)
    session_verify,    \* self.session.verify
    ssl_exceptions,    \* the keys of self.ssl_exceptions
    cookies,           \* self.session.cookies: the session it holds (0: empty)
    xsrf_token,        \* self.xsrf_token (0: None)
    header_token,      \* self.session.headers["X-XSRF-TOKEN"] (0: absent)
    credentials,       \* self.username and self.password are set
    calls,             \* calls made so far
    lastCall,          \* the latest _request: what went over the wire
    answers,           \* per host, the answers the callback has given
    loggedOut,         \* logout() was invoked when authenticated, no login since
    \* create_services and cancel_services of the ServiceManager
    booking_rev,       \* per id of self.current_services, its booking.rev
    opResult,          \* the latest operation: its input, requests and outcome
    \* MainWindow: cancelSelectedServices and create_services_from_file
    remoteServices,    \* ids of the services the remote system holds
    shownServices,     \* the keys of self.currentServices
    mutOps,            \* operations started so far
    mutOp,             \* "none", "cancel" or "create": the operation running
    mutPc,             \* "idle", "posting", "refreshing", "done"
    mutBatch,          \* the ids of its entries
    mutReached,        \* its request reached the remote system
    mutRefreshed,      \* refreshServicesAsync ran after its request
    \* one evaluation of a text filter by the ServicesFilterProxy
    fText,             \* the text of the row's cell, as the model holds it
    fQuery,            \* the filter string
    fResult,           \* "none", or what the evaluation returned
    \* the ServicesFilterProxy over the table of services
    tableModel,        \* the source model: per service id its row
    source_filter,     \* self.source_filter
    destination_filter,\* self.destination_filter
    start_range,       \* self.start_range
    active_profiles,   \* self.active_profiles
    visibleRows,       \* the rows the proxy shows: those filterAcceptsRow accepted
    latest,            \* the argument of the latest call of each setter
    sortResult         \* the latest lessThan: its two rows and what it returned

smVars == <<client, current_services, profile_mapping, endpoint_map, child_to_group,
            origin, syncCalls, syncPc, fetch, syncRet, resolves, rg>>

mwVars == <<mw_client, connected, liveSessions, currentServices, mw_profile_mapping,
            logins, loginPc, refreshes, refPc, refClient, refResp, applied, ended,
            endedClient>>

rcVars == <<retries, attempt, callPc, waitFor, worker, callResult, mapValue>>

\* the state outside ServiceManager's sync and MainWindow
trVars == <<verify_ssl, ssl_exception_callback, session_verify, ssl_exceptions,
            cookies, xsrf_token, header_token, credentials, calls, lastCall,
            answers, loggedOut>>

muVars == <<booking_rev, opResult>>

mmVars == <<remoteServices, shownServices, mutOps, mutOp, mutPc, mutBatch,
            mutReached, mutRefreshed>>

evVars == <<fText, fQuery, fResult>>

\* the state of the ServicesFilterProxy and of its evaluations
pxVars == <<tableModel, source_filter, destination_filter, start_range,
            active_profiles, visibleRows, latest, sortResult>>

uiVars == <<evVars, pxVars>>

extVars == <<rcVars, trVars, muVars, mmVars, uiVars>>

vars == <<smVars, mwVars, extVars>>

Kinds == {"normal", "profiles", "endpoints", "group"}

NoGroupRes == [group_services |-> EmptyMap, child_to_group |-> EmptyMap]

NoVal(k) == IF k = "group" THEN NoGroupRes ELSE EmptyMap

NoRet == [merged |-> EmptyMap, used_profile_ids |-> {}, profile_mapping |-> EmptyMap,
          endpoint_map |-> EmptyMap, child_to_group |-> NoGroupRes.child_to_group]

NotStarted(k) == [st |-> "none", att |-> 0, cause |-> "none", val |-> NoVal(k)]

\* the first attempt of _run_api_call is awaited
Started(k) == [st |-> "running", att |-> 1, cause |-> "none", val |-> NoVal(k)]

\* the field cause records what led to the value returned: "no_client",
\* "cached", "found", "not_found", "transport", "timeout"
RgIdle == [pc |-> "idle", id |-> "", att |-> 0, ret |-> None, cause |-> "none"]

\* __init__: no client unless one is passed, four empty dicts
InitSM ==
    /\ client = FALSE
    /\ current_services = EmptyMap
    /\ profile_mapping = EmptyMap
    /\ endpoint_map = EmptyMap
    /\ child_to_group = EmptyMap
    /\ origin = [services |-> 0, profiles |-> 0, endpoints |-> 0, c2g |-> 0]
    /\ syncCalls = 0
    /\ syncPc = "idle"
    /\ fetch = [k \in Kinds |-> NotStarted(k)]
    /\ syncRet = NoRet
    /\ resolves = 0
    /\ rg = RgIdle

\* ---------------------------------------------------------- the event loop
\* as LoopHeld, with an await after line 126
LoopHeldAwaitAfterServices == syncPc \in {"assign_services"}

\* Coroutines run on one thread and give it up only at an await.  Between the
\* return of asyncio.gather (line 94) and the return of fetch_services_data
\* (line 137) there is no await: while the coroutine stands there no other
\* coroutine, callback or reader runs.
LoopHeld ==
    syncPc \in {"assign_services", "assign_profiles", "assign_endpoints", "assign_c2g"}

\* set_client
SetClient ==
    /\ ~LoopHeld
    /\ client' = TRUE
    /\ UNCHANGED <<current_services, profile_mapping, endpoint_map, child_to_group,
                   origin, syncCalls, syncPc, fetch, syncRet, resolves, rg>>
    /\ UNCHANGED <<mwVars, extVars>>

\* ------------------------------------------------------------ _run_api_call
\* What the client function of a fetch can return, with the transport-level
\* cause it hid: retrieve_services and get_profiles return the answer;
\* get_endpoint_map and retrieve_group_connections also return when their
\* requests failed.
Outcomes == {"ok", "transport"}

\* outcomes of the two requests of get_endpoint_map that the model follows
EndpointOutcomes == {<<"ok", "ok">>, <<"ok", "transport">>}

FetchReturns(k) ==
    CASE k = "normal" ->
            {[val |-> v, cause |-> "none"] : v \in NormalResponses}
      [] k = "profiles" ->
            {[val |-> v, cause |-> "none"] : v \in ProfileResponses}
      [] k = "endpoints" ->
            {[val |-> get_endpoint_map(o[1], o[2]),
              cause |-> IF o = <<"ok", "ok">> THEN "none" ELSE "transport"] :
                o \in EndpointOutcomes}
      [] k = "group" ->
            {[val |-> retrieve_group_connections("ok", raw), cause |-> "none"] :
                raw \in RawGroupResponses}
            \cup {[val |-> retrieve_group_connections("transport", EmptyMap),
                   cause |-> "transport"]}

\* Why an awaited attempt can raise: the client function raised (a transport
\* error reaches the caller of retrieve_services and get_profiles only), or
\* asyncio.wait_for timed out, which takes the same path.
RaiseCauses(k) ==
    IF k \in {"normal", "profiles"} THEN {"transport"} ELSE {"timeout"}

\* return await asyncio.wait_for(...): the attempt's value is the call's value
RunApiCallOnReturn(f, r) == [f EXCEPT !.st = "ok", !.val = r.val, !.cause = r.cause]

\* except Exception as e: if attempt == retries - 1: raise e; else the next
\* attempt begins at once
RunApiCallOnError(f, cause) ==
    IF f.att = Retries
    THEN [f EXCEPT !.st = "raised", !.cause = cause]
    ELSE [f EXCEPT !.att = f.att + 1]

\* ------------------------------------------------- sync(): fetch_services_data
\* if not self.client: raise ServiceManagerError("Client not set")
SyncNoClient ==
    /\ ~LoopHeld
    /\ syncPc \in {"idle", "returned", "failed"}
    /\ syncCalls < MaxSyncs
    /\ ~client
    /\ syncCalls' = syncCalls + 1
    /\ syncPc' = "failed"
    /\ fetch' = [k \in Kinds |-> NotStarted(k)]
    /\ syncRet' = NoRet
    /\ UNCHANGED <<client, current_services, profile_mapping, endpoint_map,
                   child_to_group, origin, resolves, rg>>
    /\ UNCHANGED <<mwVars, extVars>>

\* lines 88-94: the four coroutines are handed to asyncio.gather and awaited
SyncStart ==
    /\ ~LoopHeld
    /\ syncPc \in {"idle", "returned", "failed"}
    /\ syncCalls < MaxSyncs
    /\ client
    /\ syncCalls' = syncCalls + 1
    /\ syncPc' = "gather"
    /\ fetch' = [k \in Kinds |-> Started(k)]
    /\ syncRet' = NoRet
    /\ UNCHANGED <<client, current_services, profile_mapping, endpoint_map,
                   child_to_group, origin, resolves, rg>>
    /\ UNCHANGED <<mwVars, extVars>>

\* an attempt of fetch k returns: _run_api_call returns its value
AttemptReturns(k) ==
    /\ ~LoopHeld
    /\ fetch[k].st = "running"
    /\ \E r \in FetchReturns(k) :
          fetch' = [fetch EXCEPT ![k] = RunApiCallOnReturn(fetch[k], r)]
    /\ UNCHANGED <<client, current_services, profile_mapping, endpoint_map,
                   child_to_group, origin, syncCalls, syncPc, syncRet, resolves, rg>>
    /\ UNCHANGED <<mwVars, extVars>>

\* an attempt of fetch k raises: retry, or re-raise on the last attempt
AttemptRaises(k) ==
    /\ ~LoopHeld
    /\ fetch[k].st = "running"
    /\ \E c \in RaiseCauses(k) :
          fetch' = [fetch EXCEPT ![k] = RunApiCallOnError(fetch[k], c)]
    /\ UNCHANGED <<client, current_services, profile_mapping, endpoint_map,
                   child_to_group, origin, syncCalls, syncPc, syncRet, resolves, rg>>
    /\ UNCHANGED <<mwVars, extVars>>

\* as GatherReturns, the group fetch left out of the join
GatherReturnsThree(f) == \A k \in Kinds \ {"group"} : f[k].st = "ok"

\* asyncio.gather(...) without return_exceptions: it returns the four values
\* when all four coroutines have returned
GatherReturns(f) == \A k \in Kinds : f[k].st = "ok"

\* ... and raises the first exception as soon as one coroutine raised; the
\* other coroutines are not cancelled and keep running
GatherRaises(f) == \E k \in Kinds : f[k].st = "raised"

\* lines 94-123: gather returned; the results are merged into local values
SyncGatherReturns ==
    /\ syncPc = "gather"
    /\ GatherReturns(fetch)
    /\ syncRet' = ProcessResults(fetch["normal"].val, fetch["profiles"].val,
                                 fetch["endpoints"].val, fetch["group"].val)
    /\ syncPc' = "assign_services"
    /\ UNCHANGED <<client, current_services, profile_mapping, endpoint_map,
                   child_to_group, origin, syncCalls, fetch, resolves, rg>>
    /\ UNCHANGED <<mwVars, extVars>>

\* as SyncGatherRaises, keeping what the successful fetches gave
SyncGatherRaisesPartial ==
    /\ ~LoopHeld
    /\ syncPc = "gather"
    /\ GatherRaises(fetch)
    /\ syncPc' = "failed"
    /\ current_services' = IF fetch["normal"].st = "ok"
                           THEN fetch["normal"].val ELSE current_services
    /\ UNCHANGED <<client, profile_mapping, endpoint_map,
                   child_to_group, origin, syncCalls, fetch, syncRet, resolves, rg>>
    /\ UNCHANGED <<mwVars, extVars>>

\* lines 97-98: except Exception: raise ServiceManagerError
SyncGatherRaises ==
    /\ ~LoopHeld
    /\ syncPc = "gather"
    /\ GatherRaises(fetch)
    /\ syncPc' = "failed"
    /\ UNCHANGED <<client, current_services, profile_mapping, endpoint_map,
                   child_to_group, origin, syncCalls, fetch, syncRet, resolves, rg>>
    /\ UNCHANGED <<mwVars, extVars>>

\* as AssignServices, updating the held map instead of replacing it
AssignServicesKeepOld ==
    /\ syncPc = "assign_services"
    /\ current_services' = Update(current_services, syncRet.merged)
    /\ origin' = [origin EXCEPT !.services = syncCalls]
    /\ syncPc' = "assign_profiles"
    /\ UNCHANGED <<client, profile_mapping, endpoint_map, child_to_group,
                   syncCalls, fetch, syncRet, resolves, rg>>
    /\ UNCHANGED <<mwVars, extVars>>

\* line 126: self.current_services = merged
AssignServices ==
    /\ syncPc = "assign_services"
    /\ current_services' = syncRet.merged
    /\ origin' = [origin EXCEPT !.services = syncCalls]
    /\ syncPc' = "assign_profiles"
    /\ UNCHANGED <<client, profile_mapping, endpoint_map, child_to_group,
                   syncCalls, fetch, syncRet, resolves, rg>>
    /\ UNCHANGED <<mwVars, extVars>>

\* line 127: self.profile_mapping = profile_mapping
AssignProfiles ==
    /\ syncPc = "assign_profiles"
    /\ profile_mapping' = syncRet.profile_mapping
    /\ origin' = [origin EXCEPT !.profiles = syncCalls]
    /\ syncPc' = "assign_endpoints"
    /\ UNCHANGED <<client, current_services, endpoint_map, child_to_group,
                   syncCalls, fetch, syncRet, resolves, rg>>
    /\ UNCHANGED <<mwVars, extVars>>

\* line 128: self.endpoint_map = endpoint_map
AssignEndpoints ==
    /\ syncPc = "assign_endpoints"
    /\ endpoint_map' = syncRet.endpoint_map
    /\ origin' = [origin EXCEPT !.endpoints = syncCalls]
    /\ syncPc' = "assign_c2g"
    /\ UNCHANGED <<client, current_services, profile_mapping, child_to_group,
                   syncCalls, fetch, syncRet, resolves, rg>>
    /\ UNCHANGED <<mwVars, extVars>>

\* lines 129-137: self.child_to_group = child_to_group; return {...}
AssignChildToGroup ==
    /\ syncPc = "assign_c2g"
    /\ child_to_group' = syncRet.child_to_group
    /\ origin' = [origin EXCEPT !.c2g = syncCalls]
    /\ syncPc' = "returned"
    /\ UNCHANGED <<client, current_services, profile_mapping, endpoint_map,
                   syncCalls, fetch, syncRet, resolves, rg>>
    /\ UNCHANGED <<mwVars, extVars>>

\* ----------------------------------------- resolveGroup: fetch_group_connection
\* lines 285-291: no client: None; the id is in the map: that entry; else the
\* single-group fetch is awaited through _run_api_call
ResolveStart(id) ==
    /\ ~LoopHeld
    /\ rg.pc \in {"idle", "returned"}
    /\ resolves < MaxResolves
    /\ resolves' = resolves + 1
    /\ rg' = IF ~client
             THEN [pc |-> "returned", id |-> id, att |-> 0, ret |-> None,
                   cause |-> "no_client"]
             ELSE IF id \in DOMAIN current_services
             THEN [pc |-> "returned", id |-> id, att |-> 0,
                   ret |-> current_services[id], cause |-> "cached"]
             ELSE [pc |-> "await", id |-> id, att |-> 1, ret |-> None,
                   cause |-> "none"]
    /\ UNCHANGED <<client, current_services, profile_mapping, endpoint_map,
                   child_to_group, origin, syncCalls, syncPc, fetch, syncRet>>
    /\ UNCHANGED <<mwVars, extVars>>

\* as LazyInsert, the map rebuilt from the fetched group alone
LazyInsertAlone(services, group_id, group_svc) == group_id :> group_svc

\* self.current_services[group_id] = group_svc (line 293): written into the
\* dict the attribute holds after the await, whatever it holds under group_id
LazyInsert(services, group_id, group_svc) == Put(services, group_id, group_svc)

\* why fetch_single_group_connection returned what it returned
SingleFetchCause(outcome, group_svc) ==
    IF outcome = "transport" THEN "transport"
    ELSE IF group_svc # None THEN "found" ELSE "not_found"

\* lines 291-294: the fetch returned; a group is inserted under the id
ResolveAttemptReturns ==
    /\ ~LoopHeld
    /\ rg.pc = "await"
    /\ \E o \in Outcomes, raw \in SingleGroupResponses :
          LET group_svc == fetch_single_group_connection(o, raw, rg.id)
          IN  /\ rg' = [rg EXCEPT !.pc = "returned", !.ret = group_svc,
                                  !.cause = SingleFetchCause(o, group_svc)]
              /\ current_services' = IF group_svc # None
                                     THEN LazyInsert(current_services, rg.id, group_svc)
                                     ELSE current_services
    /\ UNCHANGED <<client, profile_mapping, endpoint_map, child_to_group, origin,
                   syncCalls, syncPc, fetch, syncRet, resolves>>
    /\ UNCHANGED <<mwVars, extVars>>

\* the attempt timed out: _run_api_call retries; its last error is caught at
\* lines 295-297 and None is returned
ResolveAttemptRaises ==
    /\ ~LoopHeld
    /\ rg.pc = "await"
    /\ rg' = IF rg.att = Retries
             THEN [rg EXCEPT !.pc = "returned", !.ret = None, !.cause = "timeout"]
             ELSE [rg EXCEPT !.att = rg.att + 1]
    /\ UNCHANGED <<client, current_services, profile_mapping, endpoint_map,
                   child_to_group, origin, syncCalls, syncPc, fetch, syncRet, resolves>>
    /\ UNCHANGED <<mwVars, extVars>>

\* ------------------------------------------------------------- MainWindow
Refreshes == 1 .. MaxRefreshes

NoResp == [normal |-> EmptyMap, profiles |-> EmptyMap, endpoints |-> EmptyMap,
           group |-> NoGroupRes]

\* __init__ lines 424-428: no client, empty maps; nothing is in flight
InitMW ==
    /\ mw_client = 0
    /\ connected = FALSE
    /\ liveSessions = {}
    /\ currentServices = EmptyMap
    /\ mw_profile_mapping = EmptyMap
    /\ logins = 0
    /\ loginPc = "idle"
    /\ refreshes = 0
    /\ refPc = [r \in Refreshes |-> "none"]
    /\ refClient = [r \in Refreshes |-> 0]
    /\ refResp = [r \in Refreshes |-> NoResp]
    /\ applied = 0
    /\ ended = FALSE
    /\ endedClient = 0

\* _processServicesData, lines 1167-1197: the merge of fetch_services_data
\* written out a second time
ProcessServicesData(responses) ==
    LET merged == StampGroupParent(
                      MergeServices(responses.normal, responses.group.group_services),
                      responses.normal, responses.group.group_services,
                      responses.group.child_to_group)
    IN  [merged |-> merged,
         used_profile_ids |-> UsedProfileIds(merged),
         profile_mapping |-> ProfileMapping(responses.profiles),
         endpoint_map |-> responses.endpoints,
         child_to_group |-> responses.group.child_to_group]

\* lines 1136-1139: the refresh numbered refreshes + 1 starts its four fetches
\* on the client of this moment and awaits the gather
BeginRefresh ==
    /\ refreshes' = refreshes + 1
    /\ refPc' = [refPc EXCEPT ![refreshes + 1] = "gather"]
    /\ refClient' = [refClient EXCEPT ![refreshes + 1] = mw_client]

\* doLogin, lines 722-731: the dialog is accepted, a new client replaces
\* self.client and the login request is awaited
LoginStart ==
    /\ loginPc = "idle"
    /\ logins < MaxLogins
    /\ logins' = logins + 1
    /\ mw_client' = logins + 1
    /\ loginPc' = "await"
    /\ UNCHANGED <<connected, liveSessions, currentServices, mw_profile_mapping,
                   refreshes, refPc, refClient, refResp, applied, ended, endedClient>>
    /\ UNCHANGED <<smVars, extVars>>

\* lines 741-750: the login or the session query raised
LoginFails ==
    /\ loginPc = "await"
    /\ mw_client' = 0
    /\ connected' = FALSE
    /\ loginPc' = "idle"
    /\ UNCHANGED <<liveSessions, currentServices, mw_profile_mapping, logins,
                   refreshes, refPc, refClient, refResp, applied, ended, endedClient>>
    /\ UNCHANGED <<smVars, extVars>>

\* lines 731-756: the remote system opened the session; the connection status
\* is set and refreshServicesAsync is awaited.  With self.client reset to
\* None meanwhile (checkSession), line 753 raises and the coroutine ends.
LoginSucceeds ==
    /\ loginPc = "await"
    /\ refreshes < MaxRefreshes
    /\ liveSessions' = liveSessions \cup {logins}
    /\ loginPc' = "idle"
    /\ IF mw_client = 0
       THEN UNCHANGED <<connected, refreshes, refPc, refClient>>
       ELSE connected' = TRUE /\ BeginRefresh
    /\ UNCHANGED <<mw_client, currentServices, mw_profile_mapping, logins, refResp,
                   applied, ended, endedClient>>
    /\ UNCHANGED <<smVars, extVars>>

\* the remote system ends the session of the current client by itself
SessionExpires ==
    /\ mw_client \in liveSessions
    /\ liveSessions' = liveSessions \ {mw_client}
    /\ UNCHANGED <<mw_client, connected, currentServices, mw_profile_mapping, logins,
                   loginPc, refreshes, refPc, refClient, refResp, applied, ended,
                   endedClient>>
    /\ UNCHANGED <<smVars, extVars>>

\* refreshServicesAsync, the Refresh action: lines 1131-1135 return when there
\* is no client
RefreshStart ==
    /\ refreshes < MaxRefreshes
    /\ IF mw_client = 0
       THEN UNCHANGED <<refreshes, refPc, refClient>>
       ELSE BeginRefresh
    /\ UNCHANGED <<mw_client, connected, liveSessions, currentServices,
                   mw_profile_mapping, logins, loginPc, refResp, applied, ended,
                   endedClient>>
    /\ UNCHANGED <<smVars, extVars>>

\* the four fetches of refresh r have returned on the worker pool: the remote
\* system answered them while it held the session of their client
RefreshResponsesArrive(r) ==
    /\ refPc[r] = "gather"
    /\ refClient[r] \in liveSessions
    /\ \E n \in FetchReturns("normal"), p \in FetchReturns("profiles"),
          e \in FetchReturns("endpoints"), g \in FetchReturns("group") :
          refResp' = [refResp EXCEPT ![r] =
                         [normal |-> n.val, profiles |-> p.val,
                          endpoints |-> e.val, group |-> g.val]]
    /\ refPc' = [refPc EXCEPT ![r] = "ready"]
    /\ UNCHANGED <<mw_client, connected, liveSessions, currentServices,
                   mw_profile_mapping, logins, loginPc, refreshes, refClient, applied,
                   ended, endedClient>>
    /\ UNCHANGED <<smVars, extVars>>

\* lines 1139-1147: the gather returned to the event loop; _processServicesData
\* and onServicesRetrieved (lines 1221, 1224) run, then the coroutine sleeps
RefreshGatherReturns(r) ==
    /\ refPc[r] = "ready"
    /\ currentServices' = ProcessServicesData(refResp[r]).merged
    /\ mw_profile_mapping' = ProcessServicesData(refResp[r]).profile_mapping
    /\ applied' = r
    /\ ended' = (ended /\ refClient[r] <= endedClient)
    /\ refPc' = [refPc EXCEPT ![r] = "sleep_ok"]
    /\ UNCHANGED <<mw_client, connected, liveSessions, logins, loginPc, refreshes,
                   refClient, refResp, endedClient>>
    /\ UNCHANGED <<smVars, extVars>>

\* lines 1142-1147: a fetch raised after its last attempt; onServicesError
RefreshGatherRaises(r) ==
    /\ refPc[r] = "gather"
    /\ refPc' = [refPc EXCEPT ![r] = "sleep_err"]
    /\ UNCHANGED <<mw_client, connected, liveSessions, currentServices,
                   mw_profile_mapping, logins, loginPc, refreshes, refClient, refResp,
                   applied, ended, endedClient>>
    /\ UNCHANGED <<smVars, extVars>>

\* line 1148: asyncio.sleep(3) is over, the coroutine ends
RefreshDone(r) ==
    /\ refPc[r] \in {"sleep_ok", "sleep_err"}
    /\ refPc' = [refPc EXCEPT ![r] = IF refPc[r] = "sleep_ok" THEN "done_ok" ELSE "done_err"]
    /\ UNCHANGED <<mw_client, connected, liveSessions, currentServices,
                   mw_profile_mapping, logins, loginPc, refreshes, refClient, refResp,
                   applied, ended, endedClient>>
    /\ UNCHANGED <<smVars, extVars>>

\* clearAppState, line 776: self.currentServices.clear()
ClearedServices == EmptyMap

\* doLogout, lines 761-769, run from the Logout action: the session is
\* deleted, unless the request fails (the error is shown and passed over);
\* the client is dropped and clearAppState runs
DoLogout ==
    /\ connected
    /\ \E o \in Outcomes :
          liveSessions' = IF mw_client # 0 /\ o = "ok"
                          THEN liveSessions \ {mw_client} ELSE liveSessions
    /\ mw_client' = 0
    /\ connected' = FALSE
    /\ currentServices' = ClearedServices
    /\ ended' = TRUE
    /\ endedClient' = IF mw_client # 0 THEN mw_client ELSE endedClient
    /\ UNCHANGED <<mw_profile_mapping, logins, loginPc, refreshes, refPc, refClient,
                   refResp, applied>>
    /\ UNCHANGED <<smVars, extVars>>

\* what checkSession does to self.currentServices when it drops the client
\* (lines 1453-1455, 1457-1459): nothing
ServicesAfterDisconnect == currentServices

\* checkSession, lines 1448-1452: the session is valid, nothing changes
CheckSessionValid ==
    /\ mw_client # 0
    /\ mw_client \in liveSessions
    /\ UNCHANGED mwVars
    /\ UNCHANGED <<smVars, extVars>>

\* checkSession, lines 1452-1459: the session is found expired, or the
\* request raised VideoIPathClientError: the client is dropped
CheckSessionDisconnects ==
    /\ mw_client # 0
    /\ connected' = FALSE
    /\ mw_client' = 0
    /\ currentServices' = ServicesAfterDisconnect
    /\ ended' = TRUE
    /\ endedClient' = mw_client
    /\ UNCHANGED <<liveSessions, mw_profile_mapping, logins, loginPc, refreshes, refPc,
                   refClient, refResp, applied>>
    /\ UNCHANGED <<smVars, extVars>>

\* ------------------------------------------- one _run_api_call on the pool
\* for attempt in range(retries)
Attempts == 0 .. (MaxAttempts - 1)

NoResult == [kind |-> "none", att |-> -1]

\* no call has been made
InitCall ==
    /\ retries = 0
    /\ attempt = 0
    /\ callPc = "idle"
    /\ waitFor = [i \in Attempts |-> "none"]
    /\ worker = [i \in Attempts |-> "none"]
    /\ callResult = NoResult
    /\ mapValue = -1

\* as LastAttempt, giving up at the first failure
LastAttemptFirst(i) == i = 0

\* if attempt == retries - 1
LastAttempt(i) == i = retries - 1

\* as Awaited, wait_for still taking the result of a timed-out attempt
AwaitedOrTimedOut(i) == callPc = "await" /\ waitFor[i] \in {"pending", "timeout"}

\* asyncio.wait_for(...) of attempt i has neither returned nor raised
Awaited(i) == callPc = "await" /\ waitFor[i] = "pending"

\* loop.run_in_executor(self.executor, func, *args) under asyncio.wait_for:
\* func starts on a thread of the pool and the coroutine awaits it
StartAttempt(i, wf, w) ==
    /\ attempt' = i
    /\ waitFor' = [wf EXCEPT ![i] = "pending"]
    /\ worker' = [w EXCEPT ![i] = "running"]

\* except Exception as e: raise e on the last attempt, else log and go on
\* with the next attempt at once
OnAttemptFailed(i, kind, wf, w) ==
    IF LastAttempt(i)
    THEN /\ callPc' = "raised"
         /\ callResult' = [kind |-> kind, att |-> i]
         /\ waitFor' = wf
         /\ worker' = w
         /\ UNCHANGED attempt
    ELSE /\ StartAttempt(i + 1, wf, w)
         /\ UNCHANGED <<callPc, callResult>>

\* what a call returns when its loop body never ran: the function ends
\* without a return statement, the coroutine's value is None
FellThrough == [kind |-> "nothing", att |-> -1]

\* _run_api_call(func, timeout, retries) is called: range(retries) is empty
\* for retries = 0 and the call returns at once; otherwise it awaits its
\* first attempt
CallStart ==
    /\ callPc = "idle"
    /\ \E n \in 0 .. MaxAttempts :
          /\ retries' = n
          /\ IF n = 0
             THEN /\ callPc' = "returned"
                  /\ callResult' = FellThrough
                  /\ UNCHANGED <<attempt, waitFor, worker>>
             ELSE /\ StartAttempt(0, waitFor, worker)
                  /\ callPc' = "await"
                  /\ UNCHANGED callResult
    /\ UNCHANGED mapValue
    /\ UNCHANGED <<smVars, mwVars, trVars, muVars, mmVars, uiVars>>

\* func of attempt i returns on its thread: the awaited attempt hands the value
\* to the return statement; of an attempt that timed out the future was
\* cancelled and the value is dropped
FnReturns(i) ==
    /\ worker[i] = "running"
    /\ worker' = [worker EXCEPT ![i] = IF waitFor[i] = "timeout"
                                        THEN "late" ELSE "returned"]
    /\ IF Awaited(i)
       THEN /\ waitFor' = [waitFor EXCEPT ![i] = "value"]
            /\ callPc' = "returned"
            /\ callResult' = [kind |-> "value", att |-> i]
       ELSE UNCHANGED <<waitFor, callPc, callResult>>
    /\ UNCHANGED <<retries, attempt, mapValue>>
    /\ UNCHANGED <<smVars, mwVars, trVars, muVars, mmVars, uiVars>>

\* func of attempt i raises on its thread
FnRaises(i) ==
    /\ worker[i] = "running"
    /\ IF Awaited(i)
       THEN OnAttemptFailed(i, "error", [waitFor EXCEPT ![i] = "error"],
                            [worker EXCEPT ![i] = "raised"])
       ELSE /\ worker' = [worker EXCEPT ![i] = "raised"]
            /\ UNCHANGED <<waitFor, callPc, callResult, attempt>>
    /\ UNCHANGED <<retries, mapValue>>
    /\ UNCHANGED <<smVars, mwVars, trVars, muVars, mmVars, uiVars>>

\* the timeout of the awaited attempt elapses: wait_for cancels the future and
\* raises TimeoutError; the thread goes on running func
AttemptTimesOut ==
    /\ Awaited(attempt)
    /\ worker[attempt] = "running"
    /\ OnAttemptFailed(attempt, "timeout", [waitFor EXCEPT ![attempt] = "timeout"],
                       worker)
    /\ UNCHANGED <<retries, mapValue>>
    /\ UNCHANGED <<smVars, mwVars, trVars, muVars, mmVars, uiVars>>

\* the owner of the call stores the returned value in its map
\* (fetch_group_connection, line 293)
OwnerStores ==
    /\ callPc = "returned"
    /\ mapValue' = callResult.att
    /\ callPc' = "applied"
    /\ UNCHANGED <<retries, attempt, waitFor, worker, callResult>>
    /\ UNCHANGED <<smVars, mwVars, trVars, muVars, mmVars, uiVars>>

NextCall ==
    \/ CallStart
    \/ \E i \in Attempts : FnReturns(i)
    \/ \E i \in Attempts : FnRaises(i)
    \/ AttemptTimesOut
    \/ OwnerStores

\* ------------------------------------------------ VideoIPathClient._request
\* get_domain_from_url(url): the hosts requests go to; the first is the host
\* of base_url
Hosts == {"hostA", "hostB"}

BaseHost == "hostA"

\* How the remote end meets one HTTP request: it answers 2xx ("ok"), its
\* certificate does not verify ("ssl"), the connection fails or times out
\* ("conn"), it answers a non-2xx status ("http").
WireOutcomes == {"ok", "ssl", "conn", "http"}

NoCall == [kind |-> "none", host |-> "", wire |-> << >>, first |-> "none",
           prompted |-> FALSE, raised |-> "none"]

\* __init__, lines 11-22
InitTransport ==
    /\ verify_ssl \in BOOLEAN
    /\ ssl_exception_callback \in BOOLEAN
    /\ session_verify = verify_ssl
    /\ ssl_exceptions = {}
    /\ cookies = 0
    /\ xsrf_token = 0
    /\ header_token = 0
    /\ credentials = FALSE
    /\ calls = 0
    /\ lastCall = NoCall
    /\ answers = [h \in Hosts |-> << >>]
    /\ loggedOut = FALSE

\* self.session.request(...): what one HTTP request sent with the setting
\* verify meets; a certificate is only looked at when verify is set
Met(outcome, verify) == IF outcome = "ssl" /\ ~verify THEN "ok" ELSE outcome

\* one HTTP request on the wire
Sent(h, verify) == [host |-> h, verified |-> verify, token |-> header_token]

\* as SecondRequest, trying again after any failure
SecondRequestAfterFailure(met, asked, proceed) == met # "ok"

\* lines 52-86: a second request is sent after an SSLError for which the
\* callback exists, was asked and answered to proceed
SecondRequest(met, asked, proceed) == met = "ssl" /\ asked /\ proceed

\* _request(method, url), lines 28-100, for the host h of url: the remote end
\* meets the first request with `first` and a second one with `second`, the
\* callback answers `proceed` when it is asked.  The result: the requests
\* sent, whether the callback was asked, the new session.verify and
\* ssl_exceptions, and what is raised ("none": the response is returned).
Request(h, first, proceed, second) ==
    IF h \in ssl_exceptions /\ ~session_verify
    THEN \* lines 36-45: the remembered exception, one request
         [wire |-> <<Sent(h, session_verify)>>, first |-> Met(first, session_verify),
          prompted |-> FALSE, verify |-> session_verify, exceptions |-> ssl_exceptions,
          raised |-> IF Met(first, session_verify) = "ok"
                     THEN "none" ELSE "VideoIPathClientError"]
    ELSE LET met == Met(first, session_verify)
             asked == met = "ssl" /\ ssl_exception_callback
         IN  IF SecondRequest(met, asked, proceed)
             THEN \* lines 70-90: remember, switch verification off, send again
                  [wire |-> <<Sent(h, session_verify), Sent(h, FALSE)>>,
                   first |-> met, prompted |-> asked, verify |-> FALSE,
                   exceptions |-> ssl_exceptions \cup {h},
                   raised |-> IF Met(second, FALSE) = "ok"
                              THEN "none" ELSE "VideoIPathClientError"]
             ELSE \* lines 48-57, 91-100
                  [wire |-> <<Sent(h, session_verify)>>, first |-> met,
                   prompted |-> asked, verify |-> session_verify,
                   exceptions |-> ssl_exceptions,
                   raised |-> IF met = "ok" THEN "none" ELSE "VideoIPathClientError"]

\* the part of a call that every _request shares
Requested(kind, h, res, proceed) ==
    /\ calls' = calls + 1
    /\ session_verify' = res.verify
    /\ ssl_exceptions' = res.exceptions
    /\ lastCall' = [kind |-> kind, host |-> h, wire |-> res.wire,
                    first |-> res.first, prompted |-> res.prompted,
                    raised |-> res.raised]
    /\ answers' = IF res.prompted
                  THEN [answers EXCEPT ![h] = Append(@, proceed)] ELSE answers
    /\ UNCHANGED <<verify_ssl, ssl_exception_callback>>
    /\ UNCHANGED <<smVars, mwVars, rcVars, muVars, mmVars, uiVars>>

\* get(endpoint) or any other _request with a url of host h
Get(h) ==
    /\ calls < MaxCalls
    /\ \E first \in WireOutcomes, proceed \in BOOLEAN, second \in WireOutcomes :
          Requested("get", h, Request(h, first, proceed, second), proceed)
    /\ UNCHANGED <<cookies, xsrf_token, header_token, credentials, loggedOut>>

\* login, lines 102-134: the POST; a refusal raises; the session cookie is in
\* the jar, and the token, when the jar has one, is stored and put into the
\* headers of the session
Login ==
    /\ calls < MaxCalls
    /\ \E first \in WireOutcomes, proceed \in BOOLEAN, second \in WireOutcomes,
          accepted \in BOOLEAN, token \in BOOLEAN :
          LET res == Request(BaseHost, first, proceed, second)
          IN  /\ Requested("login", BaseHost, res, proceed)
              /\ IF res.raised = "none" /\ accepted
                 THEN /\ cookies' = calls + 1
                      /\ xsrf_token' = IF token THEN calls + 1 ELSE xsrf_token
                      /\ header_token' = IF token THEN calls + 1 ELSE header_token
                      /\ credentials' = TRUE
                      /\ loggedOut' = FALSE
                 ELSE UNCHANGED <<cookies, xsrf_token, header_token, credentials,
                                  loggedOut>>

\* logout, lines 150-156: the clearing statements follow the DELETE and run
\* when it did not raise
LogoutClears(raised) == raised = "none"

\* logout
Logout ==
    /\ calls < MaxCalls
    /\ \E first \in WireOutcomes, proceed \in BOOLEAN, second \in WireOutcomes :
          LET res == Request(BaseHost, first, proceed, second)
          IN  /\ Requested("logout", BaseHost, res, proceed)
              /\ IF LogoutClears(res.raised)
                 THEN /\ cookies' = 0
                      /\ xsrf_token' = 0
                      /\ credentials' = FALSE
                 ELSE UNCHANGED <<cookies, xsrf_token, credentials>>
    /\ loggedOut' = (loggedOut \/ credentials)
    /\ UNCHANGED header_token

NextTransport ==
    \/ \E h \in Hosts : Get(h)
    \/ Login
    \/ Logout

\* a VideoIPathClient as MainWindow.doLogin makes it: VideoIPathClient(url)
InitClientDefault ==
    /\ InitTransport
    /\ verify_ssl = TRUE
    /\ ssl_exception_callback = FALSE

\* ------------------------------- ServiceManager: create_services, cancel_services
\* ids of the services a file offers for creation
EntryIds == {"a", "b"}

\* self.current_services as cancel_services reads it: per id the booking.rev,
\* "None" when the booking has no rev (a group entry), "nobooking" when the
\* service has no booking; "x" is no key of the map
CanonicalBookings ==
    ("a" :> "r1") @@ ("b" :> "r2") @@ ("g" :> "None") @@ ("n" :> "nobooking")

CancelIds == {"a", "b", "g", "n", "x"}

\* lists of at most n elements of S
SeqsUpTo(S, n) == UNION {[1 .. k -> S] : k \in 0 .. n}

\* One element of entriesLink: the id ("" when absent) and the error ("None"
\* when absent or null).
Links == [id : EntryIds \cup {""}, error : {"None", "conflict"}]

\* bookresult.details: entry id -> status; an id without a detail, or with a
\* detail that has no status, is no key
DetailMaps == UNION {[D -> {"0", "1"}] : D \in SUBSET EntryIds}

\* the JSON a mutation endpoint answers
Responses ==
    [header_ok : BOOLEAN, entriesLink : SeqsUpTo(Links, MaxLinks), details : DetailMaps]

NoOp == [op |-> "none", outcome |-> "none", error |-> "", sent |-> 0,
         answered |-> FALSE, entries |-> << >>, response |-> [header_ok |-> TRUE, entriesLink |-> << >>,
                                          details |-> << >>],
         total |-> 0, success_count |-> 0, failed_services |-> << >>,
         mapBefore |-> CanonicalBookings]

InitMutate ==
    /\ booking_rev = CanonicalBookings
    /\ opResult = NoOp

\* detail.get("status", default) of details.get(id, {})
DetailStatus(details, id, default) ==
    IF id \in DOMAIN details THEN details[id] ELSE default

\* create_services, line 393: detail.get("status", 0)
CreateStatusDefault == "0"

\* cancel_services, line 479: detail.get("status")
CancelStatusDefault == "None"

\* as LinkSucceeded, looking at the link only
LinkSucceededNoDetail(link, details, default) ==
    link.error = "None" /\ link.id # ""

\* the entry of a link counts as a success: no error, an id, status 0
LinkSucceeded(link, details, default) ==
    /\ link.error = "None"
    /\ link.id # ""
    /\ DetailStatus(details, link.id, default) = "0"

\* the pair appended to failed_services for a link that did not succeed
FailedPair(link, details) ==
    IF link.error = "None" /\ link.id # ""
    THEN <<link.id, "Status " \o DetailStatus(details, link.id, "None")>>
    ELSE <<IF link.id # "" THEN link.id ELSE "Unknown",
           IF link.error = "None" THEN "Unknown error" ELSE link.error>>

\* the loop over entriesLink of create_services (389-399) and of
\* cancel_services (475-485)
RECURSIVE Accounting(_, _, _)
Accounting(links, details, default) ==
    IF links = << >>
    THEN [success_count |-> 0, failed_services |-> << >>]
    ELSE LET n == Len(links)
             before == Accounting(SubSeq(links, 1, n - 1), details, default)
         IN  IF LinkSucceeded(links[n], details, default)
             THEN [before EXCEPT !.success_count = @ + 1]
             ELSE [before EXCEPT !.failed_services =
                                    Append(@, FailedPair(links[n], details))]

\* the POST of a mutation: the request is sent; it returns a response or a
\* transport error
PostOutcomes ==
    {[raised |-> TRUE, response |-> NoOp.response]}
    \cup {[raised |-> FALSE, response |-> r] : r \in Responses}

\* lines 349-350, 420-421: if not self.client: raise
ClientNotSet(op) ==
    [NoOp EXCEPT !.op = op, !.outcome = "raised", !.error = "Client not set",
                 !.mapBefore = booking_rev]

\* the result of an operation that sent its request
Posted(op, entries, post, accounting) ==
    IF post.raised
    THEN [NoOp EXCEPT !.op = op, !.outcome = "raised", !.error = "Failed",
                      !.sent = 1, !.entries = entries, !.mapBefore = booking_rev]
    ELSE [NoOp EXCEPT !.op = op, !.outcome = "returned", !.sent = 1,
                      !.answered = TRUE, !.entries = entries, !.response = post.response,
                      !.total = Len(entries),
                      !.success_count = accounting.success_count,
                      !.failed_services = accounting.failed_services,
                      !.mapBefore = booking_rev]

\* entries = [services[service_id] for service_id in selected_ids
\*            if service_id in services], in an order of the set
EntryLists(services, selected_ids) ==
    {e \in SeqsUpTo(EntryIds, Cardinality(EntryIds)) :
        /\ Len(e) = Cardinality(selected_ids \cap services)
        /\ {e[k] : k \in DOMAIN e} = selected_ids \cap services}

\* create_services(services, selected_ids); the model follows one operation
CreateServices ==
    /\ opResult = NoOp
    /\ \E services \in SUBSET EntryIds, selected_ids \in SUBSET EntryIds :
       \E entries \in EntryLists(services, selected_ids), post \in PostOutcomes :
          opResult' =
             IF ~client THEN ClientNotSet("create")
             ELSE Posted("create", entries, post,
                         Accounting(post.response.entriesLink, post.response.details,
                                    CreateStatusDefault))
    /\ UNCHANGED booking_rev
    /\ UNCHANGED <<smVars, mwVars, rcVars, trVars, mmVars, uiVars>>

\* the service of id cannot be cancelled: it is no key of the map (or an
\* empty entry), has no booking, or its booking has no rev
CancelDefect(id) ==
    IF id \notin DOMAIN booking_rev THEN "not found"
    ELSE IF booking_rev[id] = "nobooking" THEN "no booking data"
    ELSE IF booking_rev[id] = "None" THEN "no revision"
    ELSE ""

\* as DefectiveAt, only the first id looked at before the request
DefectiveAtFirst(service_ids) ==
    {k \in DOMAIN service_ids : k = 1 /\ CancelDefect(service_ids[k]) # ""}

\* the positions of service_ids at which the loop of lines 424-435 raises
DefectiveAt(service_ids) ==
    {k \in DOMAIN service_ids : CancelDefect(service_ids[k]) # ""}

\* booking_data.get("rev")
RevOf(id) == IF id \in DOMAIN booking_rev THEN booking_rev[id] ELSE "None"

\* cancel_services(service_ids); the model follows one operation
CancelServices ==
    /\ opResult = NoOp
    /\ \E service_ids \in SeqsUpTo(CancelIds, 2), post \in PostOutcomes :
          opResult' =
             IF ~client THEN ClientNotSet("cancel")
             ELSE IF DefectiveAt(service_ids) # {}
             THEN \* lines 424-435: the first defective id raises
                  LET k == CHOOSE i \in DefectiveAt(service_ids) :
                              \A j \in DefectiveAt(service_ids) : i <= j
                  IN  [NoOp EXCEPT !.op = "cancel", !.outcome = "raised",
                                   !.error = CancelDefect(service_ids[k]),
                                   !.entries = service_ids,
                                   !.mapBefore = booking_rev]
             ELSE IF ~post.raised /\ ~post.response.header_ok
             THEN \* lines 463-464: header.ok is not set
                  [NoOp EXCEPT !.op = "cancel", !.outcome = "raised",
                               !.error = "API call failed", !.sent = 1,
                               !.answered = TRUE, !.entries = service_ids,
                               !.response = post.response,
                               !.mapBefore = booking_rev]
             ELSE Posted("cancel", service_ids, post,
                         Accounting(post.response.entriesLink, post.response.details,
                                    CancelStatusDefault))
    /\ UNCHANGED booking_rev
    /\ UNCHANGED <<smVars, mwVars, rcVars, trVars, mmVars, uiVars>>

NextMutate ==
    \/ SetClient
    \/ CreateServices
    \/ CancelServices

\* ------------- MainWindow: cancelSelectedServices, create_services_from_file
\* A client is logged in and a refresh has filled self.currentServices with
\* what the remote system holds.
InitMutateMain ==
    /\ remoteServices = {"a"}
    /\ shownServices = {"a"}
    /\ mutOps = 0
    /\ mutOp = "none"
    /\ mutPc = "idle"
    /\ mutBatch = {}
    /\ mutReached = FALSE
    /\ mutRefreshed = FALSE

\* cancelSelectedServices, lines 560-621: the selected rows are services of
\* self.currentServices that have a booking and a revision; the entries are
\* built and the POST is awaited on the executor
CancelSelectedStart ==
    /\ mutPc \in {"idle", "done"}
    /\ mutOps < MaxOps
    /\ mutOps' = mutOps + 1
    /\ mutOp' = "cancel"
    /\ \E ids \in (SUBSET shownServices) \ {{}} : mutBatch' = ids
    /\ mutPc' = "posting"
    /\ mutReached' = FALSE
    /\ mutRefreshed' = FALSE
    /\ UNCHANGED <<remoteServices, shownServices>>
    /\ UNCHANGED <<smVars, mwVars, rcVars, trVars, muVars, uiVars>>

\* create_services_from_file, lines 944-973: the entries of the file that
\* were selected are built and the POST is awaited on the executor
CreateFromFileStart ==
    /\ mutPc \in {"idle", "done"}
    /\ mutOps < MaxOps
    /\ mutOps' = mutOps + 1
    /\ mutOp' = "create"
    /\ \E ids \in (SUBSET EntryIds) \ {{}} : mutBatch' = ids
    /\ mutPc' = "posting"
    /\ mutReached' = FALSE
    /\ mutRefreshed' = FALSE
    /\ UNCHANGED <<remoteServices, shownServices>>
    /\ UNCHANGED <<smVars, mwVars, rcVars, trVars, muVars, uiVars>>

\* what the remote system holds after it applied the operation to the
\* entries `done` of the batch (bookingStrategy 2: best effort)
Applied(op, done) ==
    IF op = "cancel" THEN remoteServices \ done ELSE remoteServices \cup done

\* cancelSelectedServices ends in `finally: await self.refreshServicesAsync()`
\* (lines 664-666); create_services_from_file returns after its message box
\* (lines 974-1020)
RefreshesAfter(op) == op = "cancel"

\* the POST is over: it failed before it reached the remote system, or the
\* remote system applied it to some of the entries and the response, or an
\* error in its place, came back
PostCompletes ==
    /\ mutPc = "posting"
    /\ \E reached \in BOOLEAN, done \in SUBSET mutBatch :
          /\ mutReached' = reached
          /\ remoteServices' = IF reached THEN Applied(mutOp, done)
                               ELSE remoteServices
    /\ mutPc' = IF RefreshesAfter(mutOp) THEN "refreshing" ELSE "done"
    /\ UNCHANGED <<shownServices, mutOps, mutOp, mutBatch, mutRefreshed>>
    /\ UNCHANGED <<smVars, mwVars, rcVars, trVars, muVars, uiVars>>

\* refreshServicesAsync, run to its end: the sync replaced the map, or it
\* failed and the map is the one held before
RefreshAfterMutation ==
    /\ mutPc = "refreshing"
    /\ \E ok \in BOOLEAN :
          shownServices' = IF ok THEN remoteServices ELSE shownServices
    /\ mutRefreshed' = TRUE
    /\ mutPc' = "done"
    /\ UNCHANGED <<remoteServices, mutOps, mutOp, mutBatch, mutReached>>
    /\ UNCHANGED <<smVars, mwVars, rcVars, trVars, muVars, uiVars>>

NextMutateMain ==
    \/ CancelSelectedStart
    \/ CreateFromFileStart
    \/ PostCompletes
    \/ RefreshAfterMutation

\* ------------------------------------------------------------------ strings
\* A string is the sequence of its characters.  The characters the model
\* uses: letters (word characters of a regular expression) and the blank.
WordChars == {"a", "b", "x", "n", "d", "o", "r", "A", "B", "O", "R", "N", "D"}

Whitespace == {" "}

\* str.lower() on one character
LowerChar(c) ==
    CASE c = "A" -> "a" [] c = "B" -> "b" [] c = "O" -> "o"
      [] c = "R" -> "r" [] c = "N" -> "n" [] c = "D" -> "d"
      [] OTHER -> c

\* str.lower()
Lower(str) == [i \in DOMAIN str |-> LowerChar(str[i])]

RECURSIVE LStrip(_)
LStrip(str) ==
    IF str # << >> /\ str[1] \in Whitespace THEN LStrip(Tail(str)) ELSE str

RECURSIVE RStrip(_)
RStrip(str) ==
    IF str # << >> /\ str[Len(str)] \in Whitespace
    THEN RStrip(SubSeq(str, 1, Len(str) - 1))
    ELSE str

\* str.strip()
Strip(str) == RStrip(LStrip(str))

\* token in text
Contains(text, token) ==
    \E i \in 1 .. (Len(text) - Len(token) + 1) :
        SubSeq(text, i, i + Len(token) - 1) = token

\* ------------------------------------- ServicesFilterProxy.evaluate_filter
OR == <<"O", "R">>
AND == <<"A", "N", "D">>

IsWordAt(str, k) == k \in DOMAIN str /\ str[k] \in WordChars

\* \b before position i of str: exactly one of the characters at i - 1 and i
\* is a word character (the outside of the string is none)
WordBoundary(str, i) == IsWordAt(str, i - 1) # IsWordAt(str, i)

\* r'\bOR\b' matches at position p of str
MatchAt(str, word, p) ==
    /\ p + Len(word) - 1 <= Len(str)
    /\ SubSeq(str, p, p + Len(word) - 1) = word
    /\ WordBoundary(str, p)
    /\ WordBoundary(str, p + Len(word))

Matches(str, word) == {p \in 1 .. Len(str) : MatchAt(str, word, p)}

\* re.search(r'\bOR\b', filter_str)
re_search(word, str) == Matches(str, word) # {}

\* re.split(r'\bOR\b', filter_str): the stretches of str before, between and
\* after the matches, as a set (any() and all() do not look at the order)
re_split(word, str) ==
    LET M == Matches(str, word)
        starts == {1} \cup {p + Len(word) : p \in M}
        stop(a) == IF \E p \in M : p >= a
                   THEN (CHOOSE p \in M : p >= a /\ \A q \in M : q >= a => p <= q) - 1
                   ELSE Len(str)
    IN  {SubSeq(str, a, stop(a)) : a \in starts}

\* as evaluate_filter, the test for AND made before the test for OR
evaluate_filter_and_first(text, filter_string) ==
    LET filter_str == Strip(filter_string)
    IN  IF filter_str = << >> THEN TRUE
        ELSE IF re_search(AND, filter_str)
        THEN \A token \in re_split(AND, filter_str) :
                Strip(token) # << >> => Contains(text, Lower(Strip(token)))
        ELSE IF re_search(OR, filter_str)
        THEN \E token \in re_split(OR, filter_str) :
                Strip(token) # << >> /\ Contains(text, Lower(Strip(token)))
        ELSE Contains(text, Lower(filter_str))

\* evaluate_filter(text, filter_str), text being lower case already
evaluate_filter(text, filter_string) ==
    LET filter_str == Strip(filter_string)
    IN  IF filter_str = << >> THEN TRUE
        ELSE IF re_search(OR, filter_str)
        THEN \E token \in re_split(OR, filter_str) :
                Strip(token) # << >> /\ Contains(text, Lower(Strip(token)))
        ELSE IF re_search(AND, filter_str)
        THEN \A token \in re_split(AND, filter_str) :
                Strip(token) # << >> => Contains(text, Lower(Strip(token)))
        ELSE Contains(text, Lower(filter_str))

\* what the user types into a filter field, piece by piece
QueryPieces ==
    { <<"a">>, <<"B">>, <<" ">>, OR, AND, <<" ">> \o OR \o <<" ">>,
      <<" ">> \o AND \o <<" ">>, <<" ", "o", "r", " ">> }

RECURSIVE QueriesOf(_)
QueriesOf(n) ==
    IF n = 0 THEN {<< >>}
    ELSE LET shorter == QueriesOf(n - 1)
         IN  shorter \cup {q \o piece : q \in shorter, piece \in QueryPieces}

Queries == QueriesOf(MaxPieces)

\* texts of a Source or Destination cell
FieldTexts ==
    { << >>, <<"A", "x", "x">>, <<"x", "B">>, <<"A", "b">>, <<"a", "n", "d">>,
      <<"o", "r">>, <<"a", " ", "a", "n", "d">>, <<"a", "o", "r", "b">>,
      <<"a", " ", "o", "r", " ", "b">> }

InitEvaluate ==
    /\ fText = << >>
    /\ fQuery = << >>
    /\ fResult = "none"

\* filterAcceptsRow, lines 57 and 62: the cell's text is lowered and
\* evaluated against the filter
Evaluate ==
    /\ fResult = "none"
    /\ fResult' = IF evaluate_filter(Lower(fText), fQuery) THEN "accept" ELSE "reject"
    /\ UNCHANGED <<fText, fQuery, pxVars>>
    /\ UNCHANGED <<smVars, mwVars, rcVars, trVars, muVars, mmVars>>

NextEvaluate == Evaluate

\* ------------------------------------ MainWindow.onServicesRetrieved: rows
\* The Start cell shows local time as "dd-MM-yyyy - HH:mm:ss".  The model's
\* calendar has short days and months, and one year: a text is the sequence
\* <<dd, MM, time of day>>, compared as the strings are, position by position.
\* datetime.fromtimestamp(int(start_ts) / 1000).strftime("%d-%m-%Y - %H:%M:%S")
FormatStart(ms) ==
    LET sec == ms \div MsPerSec
    IN  << ((sec \div SecPerDay) % DaysPerMonth) + 1,
           (sec \div (SecPerDay * DaysPerMonth)) + 1,
           sec % SecPerDay >>

\* QtCore.QDateTime.fromString(start_text, "dd-MM-yyyy - HH:mm:ss"), in seconds
ParseStart(start_text) ==
    ((start_text[2] - 1) * DaysPerMonth + (start_text[1] - 1)) * SecPerDay
        + start_text[3]

\* booking.start as the remote system gives it: absent, a value int() does
\* not take, or a number of milliseconds: 0, two instants of second 3 and
\* one of second 4, the first second of the next month
StartStamps ==
    {[kind |-> "none", ms |-> 0], [kind |-> "bad", ms |-> 0]}
    \cup {[kind |-> "int", ms |-> n] :
            n \in {0, 3 * MsPerSec, 3 * MsPerSec + 1, 4 * MsPerSec}}

NoRaw == [has |-> FALSE, val |-> 0]

\* as StartItem, the raw timestamp stored for whole seconds only
StartItemRawWholeSeconds(start_ts) ==
    IF start_ts.kind = "int" /\ start_ts.ms # 0
    THEN [text |-> FormatStart(start_ts.ms),
          raw |-> IF start_ts.ms % MsPerSec = 0
                  THEN [has |-> TRUE, val |-> start_ts.ms] ELSE NoRaw]
    ELSE [text |-> << >>, raw |-> NoRaw]

\* lines 1248-1262: the display text and the raw timestamp of the Start cell;
\* both stay unset when start_ts is falsy or int() raises
StartItem(start_ts) ==
    IF start_ts.kind = "int" /\ start_ts.ms # 0
    THEN [text |-> FormatStart(start_ts.ms), raw |-> [has |-> TRUE, val |-> start_ts.ms]]
    ELSE [text |-> << >>, raw |-> NoRaw]

\* prof_name = self._profile_mapping.get(pid, pid)
ProfileName(mapping, pid) == IF pid \in DOMAIN mapping THEN mapping[pid] ELSE pid

\* lines 1231-1271: the row of one service; label gives the texts before and
\* after "->" of booking.descriptor.label
RowOf(svc, mapping) ==
    [source |-> svc.label[1], destination |-> svc.label[2],
     profile |-> ProfileName(mapping, svc.profile), start |-> StartItem(svc.start)]

\* the model onServicesRetrieved builds: a row per service that is no group
BuildModel(merged, mapping) ==
    [id \in {i \in DOMAIN merged : merged[i].type # "group"} |->
        RowOf(merged[id], mapping)]

TableService(src, dst, pid, start_ts) ==
    [type |-> "connection", label |-> <<src, dst>>, profile |-> pid, start |-> start_ts]

TableGroup ==
    [type |-> "group", label |-> << <<"A", "b">>, << >> >>, profile |-> "",
     start |-> [kind |-> "none", ms |-> 0]]

TableProfiles == "p1" :> "HD"

\* merged of a sync result: three services, whatever their booking.start,
\* and a group
TableResults ==
    { ("t1" :> TableService(<<"A", "b">>, <<"x", "B">>, "p1", s1))
      @@ ("t2" :> TableService(<<"a", "n", "d">>, << >>, "p2", s2))
      @@ ("t3" :> TableService(<<"x", "B">>, <<"A", "b">>, "", s3))
      @@ ("g1" :> TableGroup) :
        s1 \in StartStamps, s2 \in StartStamps, s3 \in StartStamps }

\* the sync result the table of the filter runs was built from: starts in
\* second 3 and second 4 (the next month), one service without a start
FilterResult ==
    ("t1" :> TableService(<<"A", "b">>, <<"x", "B">>, "p1",
                          [kind |-> "int", ms |-> 3 * MsPerSec]))
    @@ ("t2" :> TableService(<<"a", "n", "d">>, << >>, "p2",
                             [kind |-> "int", ms |-> 4 * MsPerSec + 1]))
    @@ ("t3" :> TableService(<<"x", "B">>, <<"A", "b">>, "",
                             [kind |-> "none", ms |-> 0]))
    @@ ("g1" :> TableGroup)

\* ----------------------------------------------------- ServicesFilterProxy
\* a bound of start_range: None, or a QDateTime (in seconds)
NoTime == [set |-> FALSE, at |-> 0]

TimeBounds == {NoTime} \cup {[set |-> TRUE, at |-> t] : t \in 0 .. MaxSec}

\* the filter strings typed in the filter runs
FilterQueries ==
    { << >>, <<"B">>, <<"d">> \o <<" ">> \o OR \o <<" ">> \o <<"x">>,
      <<"B">> \o <<" ">> \o AND \o <<" ">> \o <<"x">> }

ProfileNames == {"HD", "p2"}

NoSort == [left |-> "", right |-> "", less |-> "none"]

\* as PassesStartRange, a row without a start text rejected
PassesStartRangeTextOnly(start_text, range) ==
    /\ start_text # << >>
    /\ ~(range[1].set /\ ParseStart(start_text) < range[1].at)
    /\ ~(range[2].set /\ ParseStart(start_text) > range[2].at)

\* lines 68-73: the time range filter
PassesStartRange(start_text, range) ==
    \/ start_text = << >>
    \/ /\ ~(range[1].set /\ ParseStart(start_text) < range[1].at)
       /\ ~(range[2].set /\ ParseStart(start_text) > range[2].at)

\* as PassesProfiles, an empty set passing no profile
PassesProfilesMember(profile_txt, profiles) == profile_txt \in profiles

\* line 76: the profile filter
PassesProfiles(profile_txt, profiles) ==
    ~(profiles # {} /\ profile_txt \notin profiles)

\* filterAcceptsRow
filterAcceptsRow(row, sf, df, range, profiles) ==
    /\ evaluate_filter(Lower(row.source), sf)
    /\ evaluate_filter(Lower(row.destination), df)
    /\ PassesStartRange(row.start.text, range)
    /\ PassesProfiles(row.profile, profiles)

\* invalidateFilter(): the proxy asks filterAcceptsRow for every row
Accepted(model, sf, df, range, profiles) ==
    {id \in DOMAIN model : filterAcceptsRow(model[id], sf, df, range, profiles)}

\* __init__: no filter; the source model is empty
InitTable ==
    /\ tableModel = EmptyMap
    /\ source_filter = << >>
    /\ destination_filter = << >>
    /\ start_range = <<NoTime, NoTime>>
    /\ active_profiles = {}
    /\ visibleRows = {}
    /\ latest = [source |-> << >>, destination |-> << >>,
                 range |-> <<NoTime, NoTime>>, profiles |-> {}]
    /\ sortResult = NoSort

InitProxy == InitEvaluate /\ InitTable

InitUi == InitProxy

\* setSourceFilterText (onSourceFilterChanged)
SetSourceFilterText(text) ==
    /\ source_filter' = text
    /\ visibleRows' = Accepted(tableModel, text, destination_filter, start_range,
                               active_profiles)
    /\ latest' = [latest EXCEPT !.source = text]
    /\ UNCHANGED <<tableModel, destination_filter, start_range, active_profiles,
                   sortResult, evVars>>
    /\ UNCHANGED <<smVars, mwVars, rcVars, trVars, muVars, mmVars>>

\* setDestinationFilterText (onDestinationFilterChanged)
SetDestinationFilterText(text) ==
    /\ destination_filter' = text
    /\ visibleRows' = Accepted(tableModel, source_filter, text, start_range,
                               active_profiles)
    /\ latest' = [latest EXCEPT !.destination = text]
    /\ UNCHANGED <<tableModel, source_filter, start_range, active_profiles,
                   sortResult, evVars>>
    /\ UNCHANGED <<smVars, mwVars, rcVars, trVars, muVars, mmVars>>

\* setStartRange (onTimeFilterChanged: None for a bound that is not valid,
\* and for both when the time filter is not enabled)
SetStartRange(start_dt, end_dt) ==
    /\ start_range' = <<start_dt, end_dt>>
    /\ visibleRows' = Accepted(tableModel, source_filter, destination_filter,
                               <<start_dt, end_dt>>, active_profiles)
    /\ latest' = [latest EXCEPT !.range = <<start_dt, end_dt>>]
    /\ UNCHANGED <<tableModel, source_filter, destination_filter, active_profiles,
                   sortResult, evVars>>
    /\ UNCHANGED <<smVars, mwVars, rcVars, trVars, muVars, mmVars>>

\* setActiveProfiles (onProfilesFilterChanged)
SetActiveProfiles(profile_names) ==
    /\ active_profiles' = profile_names
    /\ visibleRows' = Accepted(tableModel, source_filter, destination_filter,
                               start_range, profile_names)
    /\ latest' = [latest EXCEPT !.profiles = profile_names]
    /\ UNCHANGED <<tableModel, source_filter, destination_filter, start_range,
                   sortResult, evVars>>
    /\ UNCHANGED <<smVars, mwVars, rcVars, trVars, muVars, mmVars>>

NextFilter ==
    \/ \E text \in FilterQueries : SetSourceFilterText(text)
    \/ \E text \in FilterQueries : SetDestinationFilterText(text)
    \/ \E start_dt \in TimeBounds, end_dt \in TimeBounds : SetStartRange(start_dt, end_dt)
    \/ \E profile_names \in SUBSET ProfileNames : SetActiveProfiles(profile_names)

\* a sync result has been retrieved and its table is shown without a filter
InitFilterSpec ==
    /\ InitSM /\ InitMW /\ InitCall /\ InitClientDefault /\ InitMutate /\ InitMutateMain
    /\ InitEvaluate
    /\ tableModel = BuildModel(FilterResult, TableProfiles)
    /\ source_filter = << >>
    /\ destination_filter = << >>
    /\ start_range = <<NoTime, NoTime>>
    /\ active_profiles = {}
    /\ visibleRows = DOMAIN BuildModel(FilterResult, TableProfiles)
    /\ latest = [source |-> << >>, destination |-> << >>,
                 range |-> <<NoTime, NoTime>>, profiles |-> {}]
    /\ sortResult = NoSort

SpecFilter == InitFilterSpec /\ [][NextFilter]_vars

\* -------------------------------------------- ServicesFilterProxy.lessThan
\* onServicesRetrieved: the model is built from result["merged"] and becomes
\* the proxy's source model, which filters its rows anew
OnServicesRetrieved(merged) ==
    /\ tableModel' = BuildModel(merged, TableProfiles)
    /\ visibleRows' = Accepted(BuildModel(merged, TableProfiles), source_filter,
                               destination_filter, start_range, active_profiles)
    /\ sortResult' = NoSort
    /\ UNCHANGED <<source_filter, destination_filter, start_range, active_profiles,
                   latest, evVars>>
    /\ UNCHANGED <<smVars, mwVars, rcVars, trVars, muVars, mmVars>>

\* the display texts of two Start cells compared as strings: position by
\* position, a text that is a prefix of the other being the smaller
RECURSIVE TextLess(_, _)
TextLess(a, b) ==
    IF b = << >> THEN FALSE
    ELSE IF a = << >> THEN TRUE
    ELSE IF Head(a) # Head(b) THEN Head(a) < Head(b)
    ELSE TextLess(Tail(a), Tail(b))

\* as lessThan, without the branch for the raw timestamps
lessThanByText(left, right) == TextLess(left.start.text, right.start.text)

\* lessThan on the Start column: the raw timestamps when both cells hold one,
\* else super().lessThan, which compares the display texts
lessThan(left, right) ==
    IF left.start.raw.has /\ right.start.raw.has
    THEN left.start.raw.val < right.start.raw.val
    ELSE TextLess(left.start.text, right.start.text)

\* the view sorts by the Start column and asks for two rows
LessThan(l, r) ==
    /\ l \in DOMAIN tableModel /\ r \in DOMAIN tableModel
    /\ sortResult' = [left |-> l, right |-> r,
                      less |-> IF lessThan(tableModel[l], tableModel[r])
                               THEN "true" ELSE "false"]
    /\ UNCHANGED <<tableModel, source_filter, destination_filter, start_range,
                   active_profiles, visibleRows, latest, evVars>>
    /\ UNCHANGED <<smVars, mwVars, rcVars, trVars, muVars, mmVars>>

TableIds == {"t1", "t2", "t3"}

NextSort ==
    \/ \E merged \in TableResults : OnServicesRetrieved(merged)
    \/ \E l \in TableIds, r \in TableIds : LessThan(l, r)

InitSortSpec ==
    /\ InitSM /\ InitMW /\ InitCall /\ InitClientDefault /\ InitMutate /\ InitMutateMain
    /\ InitProxy

SpecSort == InitSortSpec /\ [][NextSort]_vars

\* every cell text and every filter string
InitEvaluateSpec ==
    /\ InitSM /\ InitMW /\ InitCall /\ InitClientDefault /\ InitMutate /\ InitMutateMain
    /\ InitTable
    /\ fText \in FieldTexts
    /\ fQuery \in Queries
    /\ fResult = "none"

SpecEvaluate == InitEvaluateSpec /\ [][NextEvaluate]_vars

InitMutateMainSpec ==
    /\ InitSM /\ InitMW /\ InitCall /\ InitClientDefault /\ InitMutate /\ InitMutateMain
    /\ InitUi

SpecMutateMain == InitMutateMainSpec /\ [][NextMutateMain]_vars

InitMutateSpec ==
    /\ InitSM /\ InitMW /\ InitCall /\ InitClientDefault /\ InitMutate /\ InitMutateMain
    /\ InitUi

SpecMutate == InitMutateSpec /\ [][NextMutate]_vars

InitTransportSpec ==
    /\ InitSM /\ InitMW /\ InitCall /\ InitTransport /\ InitMutate /\ InitMutateMain
    /\ InitUi

SpecTransport == InitTransportSpec /\ [][NextTransport]_vars

InitExt == InitCall /\ InitClientDefault /\ InitMutate /\ InitMutateMain /\ InitUi

InitCallSpec == InitSM /\ InitMW /\ InitExt

SpecCall == InitCallSpec /\ [][NextCall]_vars

InitMain == InitSM /\ InitMW /\ InitExt

NextMain ==
    \/ LoginStart
    \/ LoginFails
    \/ LoginSucceeds
    \/ SessionExpires
    \/ RefreshStart
    \/ \E r \in Refreshes : RefreshResponsesArrive(r)
    \/ \E r \in Refreshes : RefreshGatherReturns(r)
    \/ \E r \in Refreshes : RefreshGatherRaises(r)
    \/ \E r \in Refreshes : RefreshDone(r)
    \/ DoLogout
    \/ CheckSessionValid
    \/ CheckSessionDisconnects

SpecMain == InitMain /\ [][NextMain]_vars

Init == InitSM /\ InitMW /\ InitExt

Next ==
    \/ SetClient
    \/ SyncNoClient
    \/ SyncStart
    \/ \E k \in Kinds : AttemptReturns(k)
    \/ \E k \in Kinds : AttemptRaises(k)
    \/ SyncGatherReturns
    \/ SyncGatherRaises
    \/ AssignServices
    \/ AssignProfiles
    \/ AssignEndpoints
    \/ AssignChildToGroup
    \/ \E id \in ResolveIds : ResolveStart(id)
    \/ ResolveAttemptReturns
    \/ ResolveAttemptRaises

Spec == Init /\ [][Next]_vars

\* ------------------------------------------------------------ claims on Spec
\* the coroutine is past the gather with the four values
Gathered ==
    syncPc \in {"assign_services", "assign_profiles", "assign_endpoints",
                "assign_c2g", "returned"}

\* C1: sync() fails whenever one of its four fetches failed at the transport,
\* and nothing of the other fetches is merged: no sync() whose fetch hit a
\* transport failure gets past the join.
C1_TransportFailureFailsSync ==
    (\E k \in Kinds : fetch[k].cause = "transport") => ~Gathered

\* C2: a sync() that fails leaves the four maps as they were: no step of a
\* sync() that has not passed the join (its start, the attempts of its
\* fetches, its failure) changes the service, profile, endpoint or
\* child-to-group map.
C2_FailedSyncKeepsMaps ==
    [][ ( (fetch' # fetch \/ syncPc' # syncPc \/ syncCalls' # syncCalls)
          /\ syncPc' \in {"gather", "failed"} )
        => UNCHANGED <<current_services, profile_mapping, endpoint_map,
                       child_to_group>> ]_vars

\* a second sync() failed on the profile fetch after its last attempt, the
\* normal fetch having succeeded, while the maps of the first sync() are held
C2_Witness ==
    /\ syncPc = "failed"
    /\ syncCalls = 2
    /\ fetch["profiles"].st = "raised"
    /\ fetch["profiles"].att = Retries
    /\ fetch["normal"].st = "ok"
    /\ origin.services = 1
    /\ current_services # EmptyMap
    /\ current_services # fetch["normal"].val

\* C4: wherever another coroutine or reader can run, the four maps were all
\* assigned by the same sync().
C4_MapsReplacedAsOne ==
    ~LoopHeld =>
        /\ origin.profiles = origin.services
        /\ origin.endpoints = origin.services
        /\ origin.c2g = origin.services

\* a second sync() has replaced the maps of the first while a resolveGroup
\* is waiting for its fetch
C4_Witness ==
    /\ syncPc = "returned"
    /\ syncCalls = 2
    /\ origin.services = 2
    /\ origin.c2g = 2
    /\ rg.pc = "await"

\* every groupParent of m names a group-kind entry of m
ParentsPresent(m) ==
    \A id \in DOMAIN m :
        m[id].groupParent # "" =>
            /\ m[id].groupParent \in DOMAIN m
            /\ m[m[id].groupParent].type = "group"

\* C5: in the map sync() returns and in the canonical map, after any sequence
\* of sync() and resolveGroup(), every service with a groupParent has that id
\* in the same map as a group-kind entry.
C5_GroupParentPresent ==
    /\ ParentsPresent(current_services)
    /\ ParentsPresent(syncRet.merged)

\* a child of a group is in the canonical map after a lazy insertion
C5_Witness ==
    /\ \E id \in DOMAIN current_services : current_services[id].groupParent # ""
    /\ rg.pc = "returned"
    /\ rg.ret # None
    /\ syncCalls = 2

\* C6: after the join, every merged service that is not of group kind and
\* whose id is a key of the child-to-group map carries the mapped group id;
\* the stamp is written after the overlay, so an entry the overlay wrote is
\* the group entry as fetched, without a stamp.
C6_ChildrenStamped ==
    Gathered =>
        \A id \in DOMAIN syncRet.merged :
            /\ ( syncRet.merged[id].type # "group"
                 /\ id \in DOMAIN syncRet.child_to_group )
               => syncRet.merged[id].groupParent = syncRet.child_to_group[id]
            /\ id \in DOMAIN fetch["group"].val.group_services
               => syncRet.merged[id].groupParent = ""

\* a returned sync() whose map holds a stamped child, and a group entry that
\* replaced a normal service whose id is a key of the child-to-group map
C6_Witness ==
    /\ syncPc = "returned"
    /\ \E id \in DOMAIN syncRet.merged :
          /\ id \in DOMAIN syncRet.child_to_group
          /\ syncRet.merged[id].type # "group"
          /\ syncRet.merged[id].groupParent = "g1"
    /\ \E id \in DOMAIN syncRet.merged :
          /\ id \in DOMAIN syncRet.child_to_group
          /\ id \in DOMAIN fetch["normal"].val
          /\ syncRet.merged[id].type = "group"

\* C7: the keys of the merged map are exactly the normal ids and the group
\* ids of this sync(); an id of both sources holds the group entry; the
\* canonical map right after its assignment is that map, so no entry of an
\* earlier sync() or of a lazy insertion is left.
C7_MergedKeys ==
    Gathered =>
        /\ DOMAIN syncRet.merged =
              (DOMAIN fetch["normal"].val) \cup (DOMAIN fetch["group"].val.group_services)
        /\ \A id \in DOMAIN fetch["group"].val.group_services :
              syncRet.merged[id] = fetch["group"].val.group_services[id]
        /\ \A id \in (DOMAIN fetch["normal"].val)
                        \ (DOMAIN fetch["group"].val.group_services) :
              syncRet.merged[id].type = fetch["normal"].val[id].type
              /\ syncRet.merged[id].profile = fetch["normal"].val[id].profile
        /\ syncPc \in {"assign_profiles", "assign_endpoints", "assign_c2g"}
              => current_services = syncRet.merged

\* the second sync() has just assigned a map in which "g1" came from both
\* sources, replacing a map that held "s1", which this sync() did not fetch
C7_Witness ==
    /\ syncPc = "assign_profiles"
    /\ syncCalls = 2
    /\ origin.profiles = 1
    /\ "g1" \in DOMAIN fetch["normal"].val
    /\ "g1" \in DOMAIN fetch["group"].val.group_services
    /\ "s1" \notin DOMAIN current_services

\* C8: used_profile_ids is exactly the set of non-empty profile ids of the
\* merged services, whatever the profile catalog lists.
C8_UsedProfileIdsExact ==
    Gathered =>
        /\ \A p \in syncRet.used_profile_ids :
              p # "" /\ \E id \in DOMAIN syncRet.merged : syncRet.merged[id].profile = p
        /\ \A id \in DOMAIN syncRet.merged :
              syncRet.merged[id].profile # ""
                 => syncRet.merged[id].profile \in syncRet.used_profile_ids

\* a returned sync(): "p2" is used and not in the catalog, "p3" is in the
\* catalog and not used, and a merged service has no profile
C8_Witness ==
    /\ syncPc = "returned"
    /\ "p2" \in syncRet.used_profile_ids
    /\ "p2" \notin DOMAIN syncRet.profile_mapping
    /\ "p3" \in DOMAIN syncRet.profile_mapping
    /\ "p3" \notin syncRet.used_profile_ids
    /\ \E id \in DOMAIN syncRet.merged : syncRet.merged[id].profile = ""

\* C9 as stated: sync() neither returns nor fails while a fetch is in flight.
C9_NoCompletionWhileInFlight ==
    (Gathered \/ syncPc = "failed") => \A k \in Kinds : fetch[k].st # "running"

\* C9 as amended: sync() gets past the join only when all four fetches have
\* returned, and it fails only when it has no client or a fetch has raised
\* after its last attempt.
C9_JoinThenReturnOrFirstFailure ==
    /\ Gathered => \A k \in Kinds : fetch[k].st = "ok"
    /\ syncPc = "failed" =>
          \/ \A k \in Kinds : fetch[k].st = "none"
          \/ \E k \in Kinds : fetch[k].st = "raised" /\ fetch[k].att = Retries

\* sync() has failed on one fetch while another is still in flight
C9_Witness ==
    /\ syncPc = "failed"
    /\ \E k \in Kinds : fetch[k].st = "raised"
    /\ \E k \in Kinds : fetch[k].st = "running"

\* -------------------------------------------------------- claims on SpecMain
\* refreshes whose result was assigned
RefreshApplied(r) == refPc[r] \in {"sleep_ok", "done_ok"}

\* C3: of two overlapping syncs, the result of the earlier-issued one is
\* never assigned after the result of the later-issued one: when both have
\* been assigned, the last assignment is not that of the earlier.
C3_LaterSyncWins ==
    \A r1 \in Refreshes, r2 \in Refreshes :
        (r1 < r2 /\ RefreshApplied(r1) /\ RefreshApplied(r2)) => applied # r1

\* C10: once a logout or a disconnect has happened, the canonical service map
\* is empty until a sync started after a later login is applied.
C10_EmptyAfterLogoutOrDisconnect ==
    ended => currentServices = EmptyMap

\* -------------------------------------------------------- claims on SpecCall
StartedAttempts == {i \in Attempts : waitFor[i] # "none"}

FailedAttempts == {i \in Attempts : waitFor[i] \in {"error", "timeout"}}

\* C11: for retries >= 1, the attempts of a call start one after another (an
\* attempt is awaited only when every earlier one has failed), at most
\* retries attempts start, the call returns the value of the first attempt
\* that succeeds and starts none after it, and it raises only when all
\* retries attempts have failed, with the failure of the last one.
C11_SequentialBoundedRetry ==
    retries >= 1 =>
    /\ \A i \in StartedAttempts : \A j \in Attempts : j < i => j \in FailedAttempts
    /\ Cardinality({i \in Attempts : waitFor[i] = "pending"}) <= 1
    /\ Cardinality(StartedAttempts) <= retries
    /\ callPc \in {"returned", "applied"} =>
          /\ callResult.kind = "value"
          /\ waitFor[callResult.att] = "value"
          /\ StartedAttempts = 0 .. callResult.att
    /\ callPc = "raised" =>
          /\ FailedAttempts = 0 .. (retries - 1)
          /\ callResult.att = retries - 1
          /\ callResult.kind = waitFor[retries - 1]
    /\ callPc = "await" => waitFor[attempt] = "pending"

\* a call with three attempts raised the error of its third attempt after a
\* timeout of the first
C11_Witness ==
    /\ callPc = "raised"
    /\ retries = 3
    /\ waitFor[0] = "timeout"
    /\ callResult = [kind |-> "error", att |-> 2]

\* C12: a value func produces after the timeout of its attempt has elapsed is
\* neither what the call returns nor what the owner stores.
C12_LateResultDiscarded ==
    \A i \in Attempts :
        worker[i] = "late" =>
            /\ ~(callResult.kind = "value" /\ callResult.att = i)
            /\ mapValue # i

\* the first attempt timed out and went on running while the second started;
\* it produced its value late, and the owner stored the value of the second
C12_Witness ==
    /\ worker[0] = "late"
    /\ waitFor[0] = "timeout"
    /\ callPc = "applied"
    /\ mapValue = 1

\* --------------------------------------------------- claims on SpecTransport
\* the callback has answered to proceed for host h
Affirmed(h) == \E n \in DOMAIN answers[h] : answers[h][n]

\* C13: on a client made with verification on, a request goes to a host
\* unverified only when the callback has answered to proceed for that host;
\* verification is never off without an answer to proceed.
C13_UnverifiedOnlyAfterAffirmation ==
    verify_ssl =>
        /\ \A k \in DOMAIN lastCall.wire :
              ~lastCall.wire[k].verified => Affirmed(lastCall.host)
        /\ ~session_verify => \E h \in Hosts : Affirmed(h)

\* C14: the callback answers at most once per host, whatever it answered.
C14_CallbackAskedOncePerHost ==
    \A h \in Hosts : Len(answers[h]) <= 1

\* C15: after logout() on an authenticated client, whether the DELETE went
\* through or not, the jar is empty, token and credentials are unset, and a
\* request made afterwards carries no token.
C15_LogoutClearsSessionState ==
    loggedOut =>
        /\ cookies = 0
        /\ xsrf_token = 0
        /\ ~credentials
        /\ lastCall.kind # "logout" =>
              \A k \in DOMAIN lastCall.wire : lastCall.wire[k].token = 0

\* C16: one call sends at most two HTTP requests, two only after a
\* certificate failure for which the callback answered to proceed; a call
\* whose request meets a connection failure, a timeout or a non-2xx status
\* has sent one request and raises VideoIPathClientError.
C16_NoRetryInTransport ==
    /\ Len(lastCall.wire) <= 2
    /\ Len(lastCall.wire) = 2 =>
          /\ lastCall.first = "ssl"
          /\ lastCall.prompted
          /\ answers[lastCall.host][Len(answers[lastCall.host])]
    /\ lastCall.first \in {"conn", "http"} =>
          /\ Len(lastCall.wire) = 1
          /\ lastCall.raised = "VideoIPathClientError"

\* a login went through; the next call met a connection failure: one request,
\* a typed error
C16_Witness ==
    /\ calls = 2
    /\ credentials
    /\ lastCall.first = "conn"
    /\ Len(lastCall.wire) = 1
    /\ lastCall.raised = "VideoIPathClientError"

\* ----------------------------------------------------- claims on SpecMutate
\* C17: a cancel_services whose list holds an id that is no key of the map,
\* or whose service has no booking or no revision, raises
\* ServiceManagerError without having sent a request, whatever valid ids
\* precede the bad one, and leaves the map as it was.
C17_CancelFailsBeforeAnyRequest ==
    ( /\ opResult.op = "cancel"
      /\ \E k \in DOMAIN opResult.entries :
            \/ opResult.entries[k] \notin DOMAIN opResult.mapBefore
            \/ opResult.mapBefore[opResult.entries[k]] \in {"nobooking", "None"} )
    => /\ opResult.outcome = "raised"
       /\ opResult.error \in {"not found", "no booking data", "no revision"}
       /\ opResult.sent = 0
       /\ booking_rev = opResult.mapBefore

\* a batch whose second id has no revision, after a valid first one
C17_Witness ==
    /\ opResult.op = "cancel"
    /\ opResult.entries = <<"a", "g">>
    /\ opResult.outcome = "raised"
    /\ opResult.sent = 0

\* the response has one link per submitted entry, in their order, and a
\* status for every entry reported without error
ReportsEachEntry ==
    /\ opResult.answered
    /\ Len(opResult.response.entriesLink) = Len(opResult.entries)
    /\ \A k \in DOMAIN opResult.entries :
          /\ opResult.response.entriesLink[k].id = opResult.entries[k]
          /\ opResult.response.entriesLink[k].error = "None"
                => opResult.entries[k] \in DOMAIN opResult.response.details

\* positions of the entries reported without error and with status 0
ReportedOk ==
    {k \in DOMAIN opResult.response.entriesLink :
        /\ opResult.response.entriesLink[k].error = "None"
        /\ opResult.response.entriesLink[k].id \in DOMAIN opResult.response.details
        /\ opResult.response.details[opResult.response.entriesLink[k].id] = "0"}

ReportedFailed == (DOMAIN opResult.response.entriesLink) \ ReportedOk

\* the position of the j-th failed entry
FailedPosition(j) ==
    CHOOSE k \in ReportedFailed : Cardinality({m \in ReportedFailed : m <= k}) = j

C19_CancelAccountsAsCreate ==
    opResult.outcome = "returned" =>
        LET other == Accounting(opResult.response.entriesLink,
                                opResult.response.details,
                                IF opResult.op = "cancel"
                                THEN CreateStatusDefault ELSE CancelStatusDefault)
        IN  /\ opResult.success_count = other.success_count
            /\ opResult.failed_services = other.failed_services

\* ------------------------------------------------- claims on SpecMutateMain
\* C20: when a create or a cancel whose request reached the remote system is
\* finished, a refresh has run after the request.
C20_MutationThenRefresh ==
    (mutPc = "done" /\ mutReached) => mutRefreshed

\* ---------------------------------------------- claims on Spec: resolveGroup
\* the step is the call of fetch_group_connection
ResolveCalled == resolves' = resolves + 1

\* the step is the return of a single-group fetch that yielded a group
ResolveFetched == rg.pc = "await" /\ rg'.pc = "returned" /\ rg'.ret # None

\* C21: resolveGroup(id) with id in the canonical map returns that entry
\* without any fetch and leaves the map as it is; with id absent (and a client
\* set) it issues the single-group fetch, and when that fetch yields a group
\* the return leaves the map with that group under id, every other entry as
\* it was, and the profile, endpoint and child-to-group maps untouched.
C21_ResolveGroupFrame ==
    [][ /\ (ResolveCalled /\ rg'.id \in DOMAIN current_services) =>
              /\ rg'.pc = "returned"
              /\ rg'.ret = current_services[rg'.id]
              /\ rg'.att = 0
              /\ current_services' = current_services
        /\ (ResolveCalled /\ client /\ rg'.id \notin DOMAIN current_services) =>
              /\ rg'.pc = "await"
              /\ rg'.att = 1
              /\ current_services' = current_services
        /\ ResolveFetched =>
              /\ DOMAIN current_services' = DOMAIN current_services \cup {rg.id}
              /\ current_services'[rg.id] = rg'.ret
              /\ rg'.ret.type = "group"
              /\ \A k \in DOMAIN current_services \ {rg.id} :
                    current_services'[k] = current_services[k]
              /\ UNCHANGED <<profile_mapping, endpoint_map, child_to_group>>
      ]_vars

\* a single-group fetch returned its group into a map that a sync had filled
\* with other entries
C21_Witness ==
    /\ rg.pc = "returned"
    /\ rg.cause = "found"
    /\ rg.att >= 1
    /\ DOMAIN current_services \ {rg.id} # {}
    /\ current_services[rg.id] = rg.ret
    /\ origin.services >= 1

\* what fetch_group_connection hands to its caller
ResolveOutcome(r) == r.ret

\* the outcome when the remote system answered and lists no such group
NotFoundOutcome(group_id) == fetch_single_group_connection("ok", EmptyMap, group_id)

\* C22: a resolveGroup whose fetch failed (the request failed at the transport,
\* or every attempt timed out) does not return the outcome it returns when
\* the remote system was reached and has no such group.
C22_NotFoundDistinctFromTransportError ==
    (rg.pc = "returned" /\ rg.cause \in {"transport", "timeout"}) =>
        ResolveOutcome(rg) # NotFoundOutcome(rg.id)

\* C27: the return of a single-group fetch leaves the canonical map as it is
\* when the map holds an entry under the id at that moment (a sync that
\* completed during the fetch placed it).
C27_LazyInsertOnlyWhenAbsent ==
    [][ (ResolveFetched /\ rg.id \in DOMAIN current_services) =>
            current_services' = current_services ]_vars

\* -------------------------------------------- claims on SpecCall: retries = 0
\* attempts whose func ran to its return on a pool thread
Produced == {i \in Attempts : worker[i] \in {"returned", "late"}}

\* C28: a call that has ended either returned the value that an invocation of
\* func produced or raised an error; it has not returned without func having
\* been invoked.  For every value of retries, 0 included.
C28_ReturnsValueOfFnOrFails ==
    /\ callPc \in {"returned", "applied"} =>
          /\ callResult.kind = "value"
          /\ callResult.att \in Produced
    /\ callPc = "raised" => callResult.kind \in {"error", "timeout"}

\* ------------------------------------------ claims on SpecMutate: the totals
\* C29: a create or cancel that returned a result counted every submitted
\* entry once: success_count plus the number of failed pairs is total,
\* whatever the response held.
C29_EveryEntryCountedOnce ==
    opResult.outcome = "returned" =>
        opResult.success_count + Len(opResult.failed_services) = opResult.total

\* ---------------------------------------------------- claims on SpecEvaluate
\* the word stands in the query at p as a separate word: no letter before it
\* and none after it
SeparateWordAt(query, word, p) ==
    /\ p >= 1 /\ p + Len(word) - 1 <= Len(query)
    /\ \A k \in 1 .. Len(word) : query[p + k - 1] = word[k]
    /\ (p = 1 \/ query[p - 1] \notin WordChars)
    /\ (p + Len(word) > Len(query) \/ query[p + Len(word)] \notin WordChars)

HasSeparateWord(query, word) ==
    \E p \in 1 .. Len(query) : SeparateWordAt(query, word, p)

\* the parts the query falls into when it is split on the separate word, each
\* trimmed: a part reaches from the start of the query or the end of an
\* occurrence to the next occurrence or the end of the query
PartsOn(query, word) ==
    { Strip(SubSeq(query, a, b)) :
        <<a, b>> \in { ab \in (1 .. Len(query) + 1) \X (0 .. Len(query)) :
            /\ ab[1] <= ab[2] + 1
            /\ (ab[1] = 1 \/ SeparateWordAt(query, word, ab[1] - Len(word)))
            /\ (ab[2] = Len(query) \/ SeparateWordAt(query, word, ab[2] + 1))
            /\ \A p \in ab[1] .. ab[2] : ~SeparateWordAt(query, word, p) } }

\* part is a case-insensitive substring of the field
CISubstring(part, field) == Contains(Lower(field), Lower(part))

\* the reference of the text filter, every part of a split taken as it is
ReferenceAllParts(query, field) ==
    IF Strip(query) = << >> THEN TRUE
    ELSE IF HasSeparateWord(query, OR)
    THEN \E alt \in PartsOn(query, OR) : CISubstring(alt, field)
    ELSE IF HasSeparateWord(query, AND)
    THEN \A clause \in PartsOn(query, AND) : CISubstring(clause, field)
    ELSE CISubstring(Strip(query), field)

\* the reference of the text filter, blank parts of a split left out
ReferenceNonBlankParts(query, field) ==
    IF Strip(query) = << >> THEN TRUE
    ELSE IF HasSeparateWord(query, OR)
    THEN \E alt \in PartsOn(query, OR) \ {<< >>} : CISubstring(alt, field)
    ELSE IF HasSeparateWord(query, AND)
    THEN \A clause \in PartsOn(query, AND) \ {<< >>} : CISubstring(clause, field)
    ELSE CISubstring(Strip(query), field)

Verdict(b) == IF b THEN "accept" ELSE "reject"

\* C23 as stated: the evaluation equals the reference in which a query with
\* the separate word OR accepts iff any of its alternatives is a
\* case-insensitive substring of the field, with AND iff all of its clauses
\* are, and otherwise iff the whole query is.
C23_EvaluationEqualsReference ==
    fResult # "none" => fResult = Verdict(ReferenceAllParts(fQuery, fText))

\* C23 amended: the same reference over the non-blank alternatives and
\* clauses only: a query whose alternatives are all blank accepts nothing.
C23_EvaluationEqualsReferenceNonBlank ==
    fResult # "none" => fResult = Verdict(ReferenceNonBlankParts(fQuery, fText))

\* a query with both words was evaluated by OR-splitting and accepted its
\* field through an alternative that holds the word AND as text
C23_Witness ==
    /\ fResult = "accept"
    /\ HasSeparateWord(fQuery, OR)
    /\ HasSeparateWord(fQuery, AND)
    /\ fText = <<"a", " ", "a", "n", "d">>
    /\ ~(\A clause \in PartsOn(fQuery, AND) \ {<< >>} : CISubstring(clause, fText))

\* ------------------------------------------------------ claims on SpecFilter
\* the row has a start timestamp, and the second it falls into
HasStart(row) == row.start.raw.has

StartInstant(row) == row.start.raw.val \div MsPerSec

\* start <= t when start is set and t <= end when end is set
WithinRange(t, range) ==
    /\ range[1].set => range[1].at <= t
    /\ range[2].set => t <= range[2].at

\* the row passes the text filters and the profile filter
PassesOtherFilters(row) ==
    /\ evaluate_filter(Lower(row.source), source_filter)
    /\ evaluate_filter(Lower(row.destination), destination_filter)
    /\ PassesProfiles(row.profile, active_profiles)

\* C24: with the range the latest setStartRange gave, a row that passes the
\* other filters is shown iff it has no start timestamp or its start instant
\* lies within the bounds that are set, both bounds included; a row without a
\* start timestamp is shown whatever the bounds are.
C24_TimeRangeInclusive ==
    \A id \in DOMAIN tableModel :
        PassesOtherFilters(tableModel[id]) =>
            (id \in visibleRows <=>
                (~HasStart(tableModel[id])
                    \/ WithinRange(StartInstant(tableModel[id]), latest.range)))

\* the range [4, 4] is set: the row whose start falls into second 4 and the
\* row without a start are shown, the row of second 3 is not
C24_Witness ==
    /\ start_range = <<[set |-> TRUE, at |-> 4], [set |-> TRUE, at |-> 4]>>
    /\ source_filter = << >> /\ destination_filter = << >> /\ active_profiles = {}
    /\ visibleRows = {"t2", "t3"}
    /\ HasStart(tableModel["t1"]) /\ HasStart(tableModel["t2"])
    /\ ~HasStart(tableModel["t3"])

\* C25: the filter state is what the latest call of each setter gave, and the
\* rows shown are those that pass the latest source query, the latest
\* destination query, the latest time range and the latest profile set, an
\* empty profile set passing every row.
C25_AcceptsLatestOfEachSetter ==
    /\ source_filter = latest.source
    /\ destination_filter = latest.destination
    /\ start_range = latest.range
    /\ active_profiles = latest.profiles
    /\ visibleRows =
          {id \in DOMAIN tableModel :
              /\ evaluate_filter(Lower(tableModel[id].source), latest.source)
              /\ evaluate_filter(Lower(tableModel[id].destination), latest.destination)
              /\ (~HasStart(tableModel[id])
                    \/ WithinRange(StartInstant(tableModel[id]), latest.range))
              /\ (latest.profiles = {} \/ tableModel[id].profile \in latest.profiles)}

\* all four filters are set and one of the three rows is shown
C25_Witness ==
    /\ source_filter = <<"B">>
    /\ destination_filter = <<"B">>
    /\ start_range = <<[set |-> TRUE, at |-> 3], [set |-> TRUE, at |-> 3]>>
    /\ active_profiles = {"HD"}
    /\ visibleRows = {"t1"}

\* -------------------------------------------------------- claims on SpecSort
Compared == sortResult.less # "none"

LeftRow == tableModel[sortResult.left]

RightRow == tableModel[sortResult.right]

\* C26: lessThan on the Start column orders two rows that both hold a raw
\* timestamp by the raw values, whatever their display texts; it compares the
\* display texts only when a raw value is missing on a side.
C26_RawTimestampOrder ==
    Compared =>
        IF HasStart(LeftRow) /\ HasStart(RightRow)
        THEN sortResult.less = "true" <=>
                LeftRow.start.raw.val < RightRow.start.raw.val
        ELSE sortResult.less = "true" <=>
                TextLess(LeftRow.start.text, RightRow.start.text)

\* two rows were compared whose raw timestamps order them one way and whose
\* display texts order them the other way
C26_Witness ==
    /\ Compared
    /\ sortResult.less = "true"
    /\ HasStart(LeftRow) /\ HasStart(RightRow)
    /\ LeftRow.start.raw.val < RightRow.start.raw.val
    /\ TextLess(RightRow.start.text, LeftRow.start.text)

\* C30: over the rows of a table built from a sync result lessThan on the
\* Start column is irreflexive and transitive; a row holds a raw timestamp
\* iff its display text is not empty, and a row without a timestamp is less
\* than every row with one and never the other way round.
C30_StartOrderStrict ==
    /\ \A a \in DOMAIN tableModel :
          /\ ~lessThan(tableModel[a], tableModel[a])
          /\ HasStart(tableModel[a]) <=> tableModel[a].start.text # << >>
    /\ \A a \in DOMAIN tableModel, b \in DOMAIN tableModel :
          /\ (~HasStart(tableModel[a]) /\ HasStart(tableModel[b])) =>
                /\ lessThan(tableModel[a], tableModel[b])
                /\ ~lessThan(tableModel[b], tableModel[a])
          /\ \A c \in DOMAIN tableModel :
                (lessThan(tableModel[a], tableModel[b])
                    /\ lessThan(tableModel[b], tableModel[c])) =>
                        lessThan(tableModel[a], tableModel[c])
    /\ (Compared /\ sortResult.left = sortResult.right) => sortResult.less = "false"

\* a table mixes a row without a timestamp with two rows whose raw and
\* lexical orders differ, and the row without was found less than one with
C30_Witness ==
    /\ Compared
    /\ ~HasStart(LeftRow) /\ HasStart(RightRow)
    /\ sortResult.less = "true"
    /\ \E a \in DOMAIN tableModel, b \in DOMAIN tableModel :
          /\ HasStart(tableModel[a]) /\ HasStart(tableModel[b])
          /\ tableModel[a].start.raw.val < tableModel[b].start.raw.val
          /\ TextLess(tableModel[b].start.text, tableModel[a].start.text)
====
